---- MODULE Spec2Model ----
(***************************************************************************)
(* State-machine model of the animal simulation: Animal (src/animal.py),   *)
(* Mammal (src/mammal.py) and Canine (src/canine.py).                      *)
(*                                                                         *)
(* Units.  energy_level, happiness_level and every delta applied to them   *)
(* are held in hundredths of a point (Pt(100) is the source's 100), so the *)
(* source's fractional costs (duration * 0.8, temp_diff * 1.5, ...) stay   *)
(* exact.  weight is held in grams, body_temperature in hundredths of a    *)
(* degree.  A draw of random.random() is held in hundredths (0..99).       *)
(*                                                                         *)
(* Strings.  The source's Chinese literals are written in ASCII:           *)
(*   record types: "create" (chuangjian), "feed" (weishi), "exercise"      *)
(*   (yundong), "rest" (xiuxi), "grow" (chengzhang), ...                   *)
(*   "female" is the gender literal nurse_offspring tests; "none" is the   *)
(*   migration_pattern literal migrate tests; "low" is the territoriality  *)
(*   literal establish_territory tests; pack roles are "leader",           *)
(*   "deputy", "member", "pup", "loner".                                   *)
(*                                                                         *)
(* Objects.  A Canine holds its PackBehavior in self.pack_behavior; the    *)
(* model keeps PackBehavior's attributes (pack_members, pack_role,         *)
(* dominance_level, ...) in the entity's record under their own names.     *)
(* They are attributes of the PackBehavior, not of the Canine: reading     *)
(* canine.dominance_level in the source raises AttributeError.             *)
(***************************************************************************)
EXTENDS Integers, Sequences, FiniteSets, TLC

VARIABLES
    animal,   \* the entity (self): a record of its attributes
    now,      \* the clock datetime.datetime.now() reads; every call takes a tick
    ret,      \* what the last call gave its caller: a return value or an exception
    rng,      \* number of draws taken from the random module so far
    replay,   \* the seeded re-run of hunt_prey (used by SpecHunt only)
    total_animals,  \* the class attribute Animal.total_animals
    others,   \* the other animals constructed so far (SpecKennel, SpecRegistry)
    registry  \* the class attributes Animal.species_registry,
              \* Mammal.mammal_count and Canine.canine_count

vars == <<animal, now, ret, rng, replay, total_animals, others, registry>>

(***************************************************************************)
(* Bounds of the model.                                                    *)
(***************************************************************************)
\* Number of calls explored from construction (the clock's last tick).
MaxTime == 2
\* Number of feed calls explored by SpecFeed.
MaxFeeds == 7
\* Number of hunts each of the two seeded runs makes in SpecHunt.
MaxHunts == 2
\* Number of PackBehavior calls explored by SpecPackOps.
MaxPackOps == 7
\* Number of other canines constructed in SpecKennel.
MaxCanines == 2
\* Number of calls explored by SpecKennel.
MaxKennelCalls == 3
\* Days of the clock explored by SpecBreeding.
MaxBreedingDays == 62
\* Number of draws the attempts of SpecBreeding take.
MaxMatingDraws == 4
\* Number of vaccinations recorded in SpecHealth.
MaxVaccinations == 3
\* Number of calls explored by SpecMigrate.
MaxMigrations == 4

MaxBuryCalls == 4

MaxConstructions == 3

(***************************************************************************)
(* Arithmetic helpers.                                                     *)
(***************************************************************************)
Pt(x) == 100 * x

Min(a, b) == IF a <= b THEN a ELSE b

Max(a, b) == IF a >= b THEN a ELSE b

Abs(x) == IF x >= 0 THEN x ELSE -x

\* The values a draw of random.random() takes in the model, in hundredths.
Draws == {0, 50, 99}

\* random.uniform(a, b) = a + (b - a) * random(), in hundredths of a unit.
Uniform(a, b, u) == Pt(a) + (b - a) * u

\* random.randint(a, b) from one draw.
RandInt(a, b, u) == a + (u * (b - a + 1)) \div 100

\* random.random() <= rate, with rate given in hundredths.
Bernoulli(u, rate) == u <= rate

IsPrefix(s, t) == /\ Len(s) <= Len(t)
                  /\ \A i \in 1..Len(s) : s[i] = t[i]

\* Optional values: None is <<>>, a value v is <<v>>.
None == <<>>

Some(v) == <<v>>

(***************************************************************************)
(* The clock and its formatting.  The clock counts ticks; strftime with    *)
(* %S as its finest field keeps the whole second and drops the rest.       *)
(***************************************************************************)
\* Ticks of the clock in one second: the calls are far shorter than a second.
TicksPerSecond == 2

Second(t) == t \div TicksPerSecond

SecondsPerDay == 86400

TicksPerDay == SecondsPerDay * TicksPerSecond

\* timedelta.days of a difference of two clock readings: whole days, rounded
\* down.
Days(delta) == delta \div TicksPerDay

\* timedelta.seconds: the seconds left over after the whole days.
SecondsOfDay(delta) == (delta % TicksPerDay) \div TicksPerSecond

\* The first day of each month of the year the clock starts in (day 0 is the
\* first of January), and of the January after it.
MonthStarts == <<0, 31, 59, 90, 120, 151, 181, 212, 243, 273, 304, 334, 365>>

\* datetime.month of a clock reading within that year.
Month(t) ==
    CHOOSE m \in 1..12 : /\ MonthStarts[m] <= Days(t) % 365
                         /\ Days(t) % 365 < MonthStarts[m + 1]

DigitChars == <<"0", "1", "2", "3", "4", "5", "6", "7", "8", "9">>

\* str(n) for n >= 0, as a sequence of characters.
RECURSIVE Decimal(_)
Decimal(n) ==
    IF n < 10 THEN <<DigitChars[n + 1]>>
    ELSE Decimal(n \div 10) \o <<DigitChars[(n % 10) + 1]>>

\* format(n, "0<width>d"): zeros are added on the left up to width, a longer
\* number is kept whole.
ZeroPad(n, width) ==
    LET digits == Decimal(n)
    IN  IF Len(digits) >= width THEN digits
        ELSE [i \in 1..(width - Len(digits)) |-> "0"] \o digits

\* The minute the clock starts in, as strftime("%Y%m%d%H%M") gives it.
StartMinute == <<"2", "0", "2", "6", "0", "1", "0", "1", "0", "0", "0", "0">>

\* strftime("%Y%m%d%H%M%S") of the clock, within the starting minute.
StrfTime(t) == StartMinute \o ZeroPad(Second(t), 2)

(***************************************************************************)
(* AnimalRecord and the activity log.                                      *)
(***************************************************************************)
\* AnimalRecord._generate_id: the record type and the timestamp's second.
GenerateId(record_type, t) == <<record_type, Second(t)>>

AnimalRecord(record_type, description, t) ==
    [record_type |-> record_type, description |-> description, timestamp |-> t,
     id |-> GenerateId(record_type, t)]

\* A plausible slip: the log is rebuilt from the new record alone.
LogActivityReset(self, activity_type, description, t) ==
    [self EXCEPT !.activity_log = <<AnimalRecord(activity_type, description, t)>>]

\* Animal._log_activity
LogActivity(self, activity_type, description, t) ==
    [self EXCEPT !.activity_log =
        Append(@, AnimalRecord(activity_type, description, t))]

(***************************************************************************)
(* What a call gives its caller.  exc is "none" for a normal return;       *)
(* status is the 'status' entry of a returned dict, "None" for a method    *)
(* that returns None; message tells the error messages apart.              *)
(***************************************************************************)
Returned(op, status, message) ==
    [op |-> op, exc |-> "none", status |-> status, message |-> message]

Raised(op, exc, message) ==
    [op |-> op, exc |-> exc, status |-> "raised", message |-> message]

\* The result of running a method: the entity after it, the outcome, and the
\* number of draws it took from the random module.
Result(self, r, draws) == [self |-> self, ret |-> r, draws |-> draws]

(***************************************************************************)
(* Construction.  Animal.__init__, Mammal.__init__ and Canine.__init__ set *)
(* the attributes and log one record each.  The attributes a species sets  *)
(* after construction (plain attribute writes, and nutrition's             *)
(* start_lactation) are given as a profile.                                *)
(***************************************************************************)
Tiers == {"Mammal", "Canine"}

\* Constructor arguments explored: age in years, weight in grams.
InitAges == {1, 9}

InitWeights == {20000}

\* The draw the constructor's random attributes are made from.
InitDraws == {50}

\* Mammal.__init__ defaults (src/mammal.py lines 236-256), and a species that
\* migrates, hibernates, changes coat and is nursing.
DefaultProfile ==
    [migration_pattern |-> "none", hibernation_capable |-> FALSE,
     seasonal_coat_change |-> FALSE, max_speed_kmh |-> 0, is_lactating |-> FALSE]

MigratoryProfile ==
    [migration_pattern |-> "seasonal", hibernation_capable |-> TRUE,
     seasonal_coat_change |-> TRUE, max_speed_kmh |-> 40, is_lactating |-> TRUE]

Profiles == {DefaultProfile, MigratoryProfile}

\* Species names, as sequences of characters.
Dog == <<"d", "o", "g">>

Doge == <<"D", "o", "g", "e">>

Wolf == <<"w", "o", "l", "f">>

SpeciesNames == {Dog, Doge, Wolf}

\* str.upper on one character.
Upper(c) ==
    CASE c = "d" -> "D" [] c = "o" -> "O" [] c = "g" -> "G" [] c = "e" -> "E"
      [] c = "w" -> "W" [] c = "l" -> "L" [] c = "f" -> "F"
      [] OTHER -> c

\* species[:3].upper()
SpeciesPrefix(species) ==
    [i \in 1..Min(3, Len(species)) |-> Upper(species[i])]

\* A plausible slip: the id is built without the running count.
GenerateAnimalIdNoCount(species, t, total) ==
    SpeciesPrefix(species) \o StrfTime(t)

\* Animal._generate_animal_id: the species prefix, the clock's second and
\* Animal.total_animals as it is before this construction counts itself.
GenerateAnimalId(species, t, total) ==
    SpeciesPrefix(species) \o StrfTime(t) \o ZeroPad(total, 4)

\* Animal.__eq__ between two animals: equal ids.
AnimalEq(a, b) == a.animal_id = b.animal_id

\* Animal.__init__: the attributes every animal has, and the record it logs.
\* total is Animal.total_animals when the constructor is entered.
AnimalInit(tier, species, total, age, weight, gender, t) ==
    [tier |-> tier, species |-> species,
     animal_id |-> GenerateAnimalId(species, t, total),
     age |-> age, weight |-> weight, gender |-> gender,
     is_alive |-> TRUE, is_hungry |-> FALSE, is_sleeping |-> FALSE,
     energy_level |-> Pt(100), happiness_level |-> Pt(80),
     last_fed |-> None, last_exercise |-> None,
     health_status |-> "good", last_checkup |-> None, medical_records |-> <<>>,
     vaccinations |-> <<>>,
     activity_log |-> <<AnimalRecord("create", <<>>, t)>>,
     favorite_activities |-> <<>>]

\* Mammal.__init__: the attributes it adds; body_temperature is a draw of
\* uniform(36.0, 39.0).
MammalInit(profile, u) ==
    [body_temperature |-> Uniform(36, 39, u), fur_type |-> "short",
     fur_condition |-> None, social_behavior |-> "social",
     territoriality |-> "medium", winter_weight_gain |-> 0,
     migration_pattern |-> profile.migration_pattern,
     hibernation_capable |-> profile.hibernation_capable,
     seasonal_coat_change |-> profile.seasonal_coat_change,
     max_speed_kmh |-> profile.max_speed_kmh,
     is_lactating |-> profile.is_lactating,
     is_fertile |-> TRUE, mating_season |-> None, gestation_period_days |-> 0,
     breeding_records |-> <<>>, last_mating_attempt |-> None]

\* Canine.__init__: the attributes it adds.  The random attributes are drawn
\* with randint / uniform; pursuit_endurance_km is in hundredths of a km.
CanineInit(u) ==
    [pack_instinct |-> TRUE,
     playfulness |-> RandInt(40, 85, u),
     trainability_score |-> RandInt(60, 95, u),
     scent_tracking_ability |-> RandInt(80, 98, u),
     loyalty_level |-> RandInt(70, 95, u),
     pursuit_endurance_km |-> Uniform(5, 25, u),
     digging_spots |-> <<>>, buried_items |-> <<>>, tracking_records |-> <<>>,
     play_sessions |-> <<>>, learned_commands |-> <<>>, training_sessions |-> <<>>,
     pack_members |-> <<>>, pack_role |-> "member", dominance_level |-> 50,
     loyalty_bonds |-> <<>>, territorial_markings |-> <<>>,
     pack_hierarchy_changes |-> <<>>,
     hunting_contributions |-> 0]

\* The entity a constructor call leaves: Mammal(...) or Canine(...).
NewAnimal(tier, species, total, age, weight, gender, profile, u, t) ==
    LET base == AnimalInit(tier, species, total, age, weight, gender, t)
                  @@ MammalInit(profile, u) @@ CanineInit(u)
        asMammal == LogActivity(base, "mammal_create", <<"brown">>, t)
    IN  IF tier = "Canine"
        THEN LogActivity(asMammal, "canine_create", <<200>>, t)
        ELSE asMammal

\* The class counters of a fresh process; a species the dict has no key for
\* counts 0 (species_registry.get(species, 0)).
EmptyRegistry ==
    [species_registry |-> [s \in SpeciesNames |-> 0],
     mammal_count |-> 0, canine_count |-> 0]

\* Animal.__init__'s count of the species (total_animals is counted beside it).
CountSpecies(reg, species) ==
    [reg EXCEPT !.species_registry[species] = @ + 1]

\* Mammal.__init__: Mammal.mammal_count += 1.
CountMammal(reg) == [reg EXCEPT !.mammal_count = @ + 1]

\* Canine.__init__: Canine.canine_count += 1.
CountCanine(reg) == [reg EXCEPT !.canine_count = @ + 1]

\* The class counters after a constructor call that ran to its end.
Registered(reg, tier, species) ==
    IF tier = "Canine"
    THEN CountCanine(CountMammal(CountSpecies(reg, species)))
    ELSE CountMammal(CountSpecies(reg, species))

(***************************************************************************)
(* Animal (src/animal.py).                                                 *)
(***************************************************************************)
FoodTypes == {"normal_food", "treat"}

ExerciseTypes == {"walk", "run"}

\* sleep's duration in hours: the default, and a negative value (the source
\* checks no range).
SleepDurations == {8, -21}

\* age_up's years.
AgeSteps == {1, 2}

\* A plausible slip: the deltas are added without the clamp at 100.
feed_unclamped(self, food_type, amount, t) ==
    IF ~self.is_alive
    THEN Result(self, Raised("feed", "ValueError", "dead"), 0)
    ELSE LET fed == [self EXCEPT
                        !.is_hungry = FALSE,
                        !.energy_level = @ + Pt(20),
                        !.happiness_level = @ + Pt(10),
                        !.last_fed = Some(t)]
         IN  Result(LogActivity(fed, "feed", <<food_type, amount>>, t),
                    Returned("feed", "None", "none"), 0)

\* A plausible slip: the sums wrap around past 100 instead of stopping at it.
feed_wrapped(self, food_type, amount, t) ==
    IF ~self.is_alive
    THEN Result(self, Raised("feed", "ValueError", "dead"), 0)
    ELSE LET fed == [self EXCEPT
                        !.is_hungry = FALSE,
                        !.energy_level = (@ + Pt(20)) % (Pt(100) + 1),
                        !.happiness_level = (@ + Pt(10)) % (Pt(100) + 1),
                        !.last_fed = Some(t)]
         IN  Result(LogActivity(fed, "feed", <<food_type, amount>>, t),
                    Returned("feed", "None", "none"), 0)

\* Animal.feed
feed(self, food_type, amount, t) ==
    IF ~self.is_alive
    THEN Result(self, Raised("feed", "ValueError", "dead"), 0)
    ELSE LET fed == [self EXCEPT
                        !.is_hungry = FALSE,
                        !.energy_level = Min(Pt(100), @ + Pt(20)),
                        !.happiness_level = Min(Pt(100), @ + Pt(10)),
                        !.last_fed = Some(t)]
         IN  Result(LogActivity(fed, "feed", <<food_type, amount>>, t),
                    Returned("feed", "None", "none"), 0)

\* A plausible slip: the energy is tested before is_alive.
exercise_energy_first(self, exercise_type, duration, t) ==
    IF self.energy_level < Pt(20)
    THEN Result(self, Raised("exercise", "ValueError", "too_tired"), 0)
    ELSE IF ~self.is_alive
    THEN Result(self, Raised("exercise", "ValueError", "dead"), 0)
    ELSE LET moved == [self EXCEPT
                        !.energy_level = Max(0, @ - Pt(15)),
                        !.happiness_level = Min(Pt(100), @ + Pt(15)),
                        !.last_exercise = Some(t),
                        !.favorite_activities =
                            IF \E i \in 1..Len(@) : @[i] = exercise_type
                            THEN @ ELSE Append(@, exercise_type)]
         IN  Result(LogActivity(moved, "exercise", <<exercise_type, duration>>, t),
                    Returned("exercise", "None", "none"), 0)

\* Animal.exercise
exercise(self, exercise_type, duration, t) ==
    IF ~self.is_alive
    THEN Result(self, Raised("exercise", "ValueError", "dead"), 0)
    ELSE IF self.energy_level < Pt(20)
    THEN Result(self, Raised("exercise", "ValueError", "too_tired"), 0)
    ELSE LET moved == [self EXCEPT
                        !.energy_level = Max(0, @ - Pt(15)),
                        !.happiness_level = Min(Pt(100), @ + Pt(15)),
                        !.last_exercise = Some(t),
                        !.favorite_activities =
                            IF \E i \in 1..Len(@) : @[i] = exercise_type
                            THEN @ ELSE Append(@, exercise_type)]
         IN  Result(LogActivity(moved, "exercise", <<exercise_type, duration>>, t),
                    Returned("exercise", "None", "none"), 0)

\* A plausible slip: is_sleeping is not cleared before the call returns.
sleep_stays_asleep(self, duration, t) ==
    IF ~self.is_alive
    THEN Result(self, Returned("sleep", "None", "none"), 0)
    ELSE LET asleep == [self EXCEPT
                          !.is_sleeping = TRUE,
                          !.energy_level = Min(Pt(100), @ + Pt(duration * 5))]
         IN  Result(LogActivity(asleep, "rest", <<duration>>, t),
                    Returned("sleep", "None", "none"), 0)

\* Animal.sleep: is_sleeping is set, the energy is raised, the record is
\* logged, and is_sleeping is cleared again before the call returns.
sleep(self, duration, t) ==
    IF ~self.is_alive
    THEN Result(self, Returned("sleep", "None", "none"), 0)
    ELSE LET asleep == [self EXCEPT
                          !.is_sleeping = TRUE,
                          !.energy_level = Min(Pt(100), @ + Pt(duration * 5))]
             logged == LogActivity(asleep, "rest", <<duration>>, t)
         IN  Result([logged EXCEPT !.is_sleeping = FALSE],
                    Returned("sleep", "None", "none"), 0)

\* AnimalHealth.add_medical_record
add_medical_record(self, record_type, description, t) ==
    [self EXCEPT !.medical_records =
        Append(@, AnimalRecord(record_type, description, t))]

\* AnimalHealth.add_vaccination: next_due is None or a clock reading.
add_vaccination(self, vaccine_name, date, next_due, t) ==
    LET vaccination == [vaccine |-> vaccine_name, date |-> date,
                        next_due |-> next_due, administered_by |-> "veterinarian"]
        recorded == [self EXCEPT !.vaccinations = Append(@, vaccination)]
    IN  Result(add_medical_record(recorded, "vaccination", <<vaccine_name>>, t),
               Returned("add_vaccination", "None", "none"), 0)

\* AnimalHealth.is_vaccination_due: the answer is taken from the first record
\* of the vaccine that has a next_due; the records after it are not read.
is_vaccination_due(self, vaccine_name, t) ==
    LET dated == {i \in 1..Len(self.vaccinations) :
                     /\ self.vaccinations[i].vaccine = vaccine_name
                     /\ self.vaccinations[i].next_due # None}
    IN  IF dated = {} THEN TRUE
        ELSE LET first == CHOOSE i \in dated : \A j \in dated : i <= j
             IN  t >= self.vaccinations[first].next_due[1]

\* AnimalHealth.update_health_status
update_health_status(self, status, notes, t) ==
    LET updated == [self EXCEPT !.health_status = status, !.last_checkup = Some(t)]
    IN  IF notes # ""
        THEN add_medical_record(updated, "checkup", <<status, notes>>, t)
        ELSE updated

\* Mammal.get_life_expectancy (by weight), overridden by
\* Canine.get_life_expectancy (a randint by weight).  Gives the value and the
\* number of draws taken.
get_life_expectancy(self, u) ==
    IF self.tier = "Canine"
    THEN [years |-> IF self.weight < 10000 THEN RandInt(12, 16, u)
                    ELSE IF self.weight < 30000 THEN RandInt(10, 14, u)
                    ELSE RandInt(8, 12, u),
          draws |-> 1]
    ELSE [years |-> IF self.weight < 5000 THEN 15 - 5
                    ELSE IF self.weight > 100000 THEN 15 + 10
                    ELSE 15,
          draws |-> 0]

\* A variant of age_up in which an animal past 80% of its life expectancy dies.
age_up_mortal(self, years, u, t) ==
    IF ~self.is_alive
    THEN Result(self, Returned("age_up", "None", "none"), 0)
    ELSE LET old_age == self.age
             grown == [self EXCEPT !.age = @ + years]
             le == get_life_expectancy(grown, u)
             checked == IF 10 * grown.age > 8 * le.years
                        THEN [grown EXCEPT !.is_alive = FALSE]
                        ELSE grown
         IN  Result(LogActivity(checked, "grow", <<old_age, grown.age>>, t),
                    Returned("age_up", "None", "none"), le.draws)

\* A plausible slip: the growth is logged before and after the health update.
age_up_twice(self, years, u, t) ==
    IF ~self.is_alive
    THEN Result(self, Returned("age_up", "None", "none"), 0)
    ELSE LET old_age == self.age
             grown == LogActivity([self EXCEPT !.age = @ + years],
                                  "grow", <<old_age, old_age + years>>, t)
             le == get_life_expectancy(grown, u)
             checked == IF 10 * grown.age > 8 * le.years
                        THEN update_health_status(grown, "old", "old_age", t)
                        ELSE grown
         IN  Result(IF 10 * grown.age > 8 * le.years
                    THEN LogActivity(checked, "grow", <<old_age, grown.age>>, t)
                    ELSE checked,
                    Returned("age_up", "None", "none"), le.draws)

\* Animal.age_up.  self.age > life_expectancy * 0.8 is 10 * age > 8 * expectancy.
age_up(self, years, u, t) ==
    IF ~self.is_alive
    THEN Result(self, Returned("age_up", "None", "none"), 0)
    ELSE LET old_age == self.age
             grown == [self EXCEPT !.age = @ + years]
             le == get_life_expectancy(grown, u)
             checked == IF 10 * grown.age > 8 * le.years
                        THEN update_health_status(grown, "old", "old_age", t)
                        ELSE grown
         IN  Result(LogActivity(checked, "grow", <<old_age, grown.age>>, t),
                    Returned("age_up", "None", "none"), le.draws)

(***************************************************************************)
(* Mammal (src/mammal.py).                                                 *)
(***************************************************************************)
\* Ambient temperatures in degrees: below, inside and above the tolerance
\* range (-10, 35).
AmbientTemps == {-20, 20, 40}

Seasons == {"spring", "winter"}

\* nurse_offspring's offspring_count (the source checks no range).
OffspringCounts == {1, -5}

\* establish_territory's territory_size_sqm.
TerritorySizes == {0, 2000}

PreyTypes == {"rabbit"}

\* hunt_prey's success_rate in hundredths: the default 0.6.
SuccessRates == {60}

\* migrate's distance_km (the source checks no range).
Distances == {100, -40}

\* Mammal.regulate_body_temperature.  temp_diff and the temperatures are in
\* hundredths of a degree; the drift towards 37.5 is rounded to that unit.
regulate_body_temperature(self, ambient_temp, t) ==
    IF ~self.is_alive
    THEN Result(self, Returned("regulate_body_temperature", "error", "dead"), 0)
    ELSE LET temp_diff == Abs(self.body_temperature - 100 * ambient_temp)
             cold == ambient_temp < -10
             hot == ambient_temp > 35
             temperature == IF cold THEN Min(3900, self.body_temperature + 50)
                            ELSE IF hot THEN Max(3600, self.body_temperature - 30)
                            ELSE self.body_temperature
                                   + (3750 - self.body_temperature) \div 10
             energy_cost == IF cold THEN temp_diff * 2
                            ELSE IF hot THEN (temp_diff * 3) \div 2
                            ELSE 0
             adjusted == [self EXCEPT
                            !.body_temperature = temperature,
                            !.energy_level = Max(0, @ - energy_cost)]
         IN  Result(LogActivity(adjusted, "thermoregulation",
                                <<ambient_temp, temperature>>, t),
                    Returned("regulate_body_temperature", "success", "none"), 0)

\* Mammal.groom_fur
groom_fur(self, duration_minutes, t) ==
    IF ~self.is_alive
    THEN Result(self, Returned("groom_fur", "None", "none"), 0)
    ELSE LET groomed == [self EXCEPT
                           !.happiness_level = Min(Pt(100), @ + Pt(8)),
                           !.energy_level = Max(0, @ - Pt(5)),
                           !.fur_condition = IF @ = None THEN Some(90)
                                             ELSE Some(Min(100, @[1] + 10))]
         IN  Result(LogActivity(groomed, "groom", <<duration_minutes>>, t),
                    Returned("groom_fur", "None", "none"), 0)

\* Mammal.shed_fur: one draw of uniform(0.1, 0.3) goes into the description.
shed_fur(self, season, u, t) ==
    IF ~self.seasonal_coat_change
    THEN Result(self, Returned("shed_fur", "None", "none"), 0)
    ELSE LET fur == IF season \in {"autumn", "winter"}
                    THEN (IF self.fur_type # "thin" THEN "thick" ELSE "medium")
                    ELSE (IF self.fur_type # "thick" THEN "thin" ELSE "medium")
             shed == [self EXCEPT !.fur_type = fur]
         IN  Result(LogActivity(shed, "shed", <<season, 10 + (20 * u) \div 100>>, t),
                    Returned("shed_fur", "None", "none"), 1)

\* Mammal.nurse_offspring: energy_cost = offspring_count * 0.2 * 30.
nurse_offspring(self, offspring_count, t) ==
    LET energy_cost == Pt(offspring_count * 6)
    IN  IF ~self.is_lactating
        THEN Result(self, Returned("nurse_offspring", "error", "not_lactating"), 0)
        ELSE IF self.gender # "female"
        THEN Result(self, Returned("nurse_offspring", "error", "not_female"), 0)
        ELSE IF self.energy_level < energy_cost
        THEN Result(self, Returned("nurse_offspring", "insufficient_energy", "none"), 0)
        ELSE LET nursed == [self EXCEPT
                              !.energy_level = @ - energy_cost,
                              !.happiness_level = Min(Pt(100), @ + Pt(15))]
             IN  Result(LogActivity(nursed, "nurse", <<offspring_count>>, t),
                        Returned("nurse_offspring", "success", "none"), 0)

\* Mammal.establish_territory: optimal_size = weight(kg) * 100, doubled for a
\* solitary and halved for a social species.
establish_territory(self, territory_size_sqm, t) ==
    IF self.territoriality = "low"
    THEN Result(self, Returned("establish_territory", "not_applicable", "none"), 0)
    ELSE LET base == self.weight \div 10
             optimal_size == IF self.social_behavior = "solitary" THEN base * 2
                             ELSE IF self.social_behavior = "social" THEN base \div 2
                             ELSE base
             territory_quality ==
                 Min(Pt(100), (territory_size_sqm * Pt(100)) \div optimal_size)
             happiness_change == ((territory_quality - Pt(50)) * 3) \div 10
             settled == [self EXCEPT !.happiness_level =
                            Max(0, Min(Pt(100), @ + happiness_change))]
         IN  Result(LogActivity(settled, "territory", <<territory_size_sqm>>, t),
                    Returned("establish_territory", "success", "none"), 0)

\* A plausible slip: the energy is checked after the hunting cost is taken.
hunt_prey_late_check(self, prey_type, success_rate, u1, u2, t) ==
    LET spent == [self EXCEPT !.energy_level = @ - Pt(25)]
    IN  IF self.energy_level < Pt(30)
        THEN Result(spent, Returned("hunt_prey", "insufficient_energy", "none"), 0)
        ELSE IF Bernoulli(u1, success_rate)
        THEN Result(LogActivity(
                        [spent EXCEPT
                            !.energy_level = Min(Pt(100), @ + Uniform(40, 60, u2)),
                            !.happiness_level = Min(Pt(100), @ + Pt(20)),
                            !.is_hungry = FALSE],
                        "hunt", <<prey_type, "caught">>, t),
                    Returned("hunt_prey", "success", "none"), 2)
        ELSE Result(LogActivity(
                        [spent EXCEPT !.happiness_level = Max(0, @ - Pt(10))],
                        "hunt", <<prey_type, "escaped">>, t),
                    Returned("hunt_prey", "failed", "none"), 1)

\* A plausible slip: the size of the catch is taken from the clock instead of
\* the random source.
hunt_prey_clock(self, prey_type, success_rate, u1, u2, t) ==
    IF self.energy_level < Pt(30)
    THEN Result(self, Returned("hunt_prey", "insufficient_energy", "none"), 0)
    ELSE LET spent == [self EXCEPT !.energy_level = @ - Pt(25)]
         IN  IF Bernoulli(u1, success_rate)
             THEN Result(LogActivity(
                        [spent EXCEPT
                            !.energy_level = Min(Pt(100), @ + Pt(40) + t),
                            !.happiness_level = Min(Pt(100), @ + Pt(20)),
                            !.is_hungry = FALSE],
                        "hunt", <<prey_type, "caught">>, t),
                    Returned("hunt_prey", "success", "none"), 2)
             ELSE Result(LogActivity(
                        [spent EXCEPT !.happiness_level = Max(0, @ - Pt(10))],
                        "hunt", <<prey_type, "escaped">>, t),
                    Returned("hunt_prey", "failed", "none"), 1)

\* Mammal.hunt_prey: no test of is_alive; u1 is the draw of random.random(),
\* u2 the draw of random.uniform(40, 60), taken only on success.
hunt_prey(self, prey_type, success_rate, u1, u2, t) ==
    IF self.energy_level < Pt(30)
    THEN Result(self, Returned("hunt_prey", "insufficient_energy", "none"), 0)
    ELSE LET spent == [self EXCEPT !.energy_level = @ - Pt(25)]
         IN  IF Bernoulli(u1, success_rate)
             THEN Result(LogActivity(
                        [spent EXCEPT
                            !.energy_level = Min(Pt(100), @ + Uniform(40, 60, u2)),
                            !.happiness_level = Min(Pt(100), @ + Pt(20)),
                            !.is_hungry = FALSE],
                        "hunt", <<prey_type, "caught">>, t),
                    Returned("hunt_prey", "success", "none"), 2)
             ELSE Result(LogActivity(
                        [spent EXCEPT !.happiness_level = Max(0, @ - Pt(10))],
                        "hunt", <<prey_type, "escaped">>, t),
                    Returned("hunt_prey", "failed", "none"), 1)

\* MammalBreeding.set_mating_season
set_mating_season(self, start_month, end_month) ==
    IF start_month \in 1..12 /\ end_month \in 1..12
    THEN Result([self EXCEPT !.mating_season = Some(<<start_month, end_month>>)],
                Returned("set_mating_season", "None", "none"), 0)
    ELSE Result(self, Raised("set_mating_season", "ValueError", "month"), 0)

\* MammalBreeding.is_mating_season
is_mating_season(self, t) ==
    IF self.mating_season = None THEN TRUE
    ELSE LET start == self.mating_season[1][1]
             end == self.mating_season[1][2]
         IN  IF start <= end
             THEN start <= Month(t) /\ Month(t) <= end
             ELSE Month(t) >= start \/ Month(t) <= end

\* A plausible slip: the gap is read from timedelta.seconds, not .days.
attempt_mating_seconds(self, partner_info, u, t) ==
    IF ~self.is_fertile
    THEN Result(self, Returned("attempt_mating", "False", "not_fertile"), 0)
    ELSE IF ~is_mating_season(self, t)
    THEN Result(self, Returned("attempt_mating", "False", "out_of_season"), 0)
    ELSE IF /\ self.last_mating_attempt # None
            /\ SecondsOfDay(t - self.last_mating_attempt[1]) < 30
    THEN Result(self, Returned("attempt_mating", "False", "too_soon"), 0)
    ELSE IF Bernoulli(u, 70)
    THEN Result([self EXCEPT
                    !.last_mating_attempt = Some(t),
                    !.breeding_records = Append(@,
                        AnimalRecord("mating", <<partner_info>>, t))],
                Returned("attempt_mating", "True", "none"), 1)
    ELSE Result(self, Returned("attempt_mating", "False", "no_success"), 1)

\* MammalBreeding.attempt_mating.  The returned dict has a 'success' entry,
\* held here as the status "True" or "False", and a 'reason'.
attempt_mating(self, partner_info, u, t) ==
    IF ~self.is_fertile
    THEN Result(self, Returned("attempt_mating", "False", "not_fertile"), 0)
    ELSE IF ~is_mating_season(self, t)
    THEN Result(self, Returned("attempt_mating", "False", "out_of_season"), 0)
    ELSE IF /\ self.last_mating_attempt # None
            /\ Days(t - self.last_mating_attempt[1]) < 30
    THEN Result(self, Returned("attempt_mating", "False", "too_soon"), 0)
    ELSE IF Bernoulli(u, 70)
    THEN Result([self EXCEPT
                    !.last_mating_attempt = Some(t),
                    !.breeding_records = Append(@,
                        AnimalRecord("mating", <<partner_info>>, t))],
                Returned("attempt_mating", "True", "none"), 1)
    ELSE Result(self, Returned("attempt_mating", "False", "no_success"), 1)

\* Mammal.migrate: migration_time_days divides by max_speed_kmh * 8 before the
\* energy is tested, so a speed of 0 (the constructor's default) raises.
migrate(self, destination, distance_km, t) ==
    LET migration_energy_cost == Pt(distance_km) \div 2
    IN  IF self.migration_pattern = "none"
        THEN Result(self, Returned("migrate", "not_applicable", "none"), 0)
        ELSE IF self.max_speed_kmh * 8 = 0
        THEN Result(self, Raised("migrate", "ZeroDivisionError", "max_speed"), 0)
        ELSE IF self.energy_level < migration_energy_cost
        THEN Result(self, Returned("migrate", "insufficient_energy", "none"), 0)
        ELSE LET moved == [self EXCEPT
                             !.energy_level = @ - migration_energy_cost,
                             !.happiness_level = Min(Pt(100), @ + Pt(25))]
             IN  Result(LogActivity(moved, "migrate", <<destination, distance_km>>, t),
                        Returned("migrate", "success", "none"), 0)

\* Mammal.prepare_for_hibernation: weight_gain = weight * 0.3.
prepare_for_hibernation(self, t) ==
    IF ~self.hibernation_capable
    THEN Result(self, Returned("prepare_for_hibernation", "not_applicable", "none"), 0)
    ELSE LET weight_gain == (self.weight * 3) \div 10
             fattened == [self EXCEPT
                            !.weight = @ + weight_gain,
                            !.winter_weight_gain = weight_gain,
                            !.energy_level = Pt(95)]
         IN  Result(LogActivity(fattened, "hibernation_prepare", <<weight_gain>>, t),
                    Returned("prepare_for_hibernation", "ready", "none"), 0)

(***************************************************************************)
(* Canine (src/canine.py).                                                 *)
(***************************************************************************)
ScentTypes == {"deer"}

\* track_scent's age_hours.
ScentAges == {2}

Difficulties == {"medium"}

\* dig_hole's purpose: "store_food" and "storage" are the purposes bury_item
\* reuses a hole of; "cooling" is another one.
Purposes == {"store_food", "cooling"}

\* dig_hole's depth_cm: the default, and a depth that takes all the energy.
Depths == {30, 200}

Items == {"bone"}

\* bury_item's location: None (find or dig a hole) or a place given.
Locations == {None, <<"yard", 0>>}

\* play_with_object's duration_minutes.
PlayDurations == {15, 120}

Commands == {"sit"}

PreySizes == {"medium"}

\* PackBehavior.join_pack's arguments.
PackIdLists == {<<"CAN2", "CAN1">>, <<"CAN3">>}

JoinRoles == {"member", "leader"}

\* The draws join_pack's loyalty bonds are made from.
BondDraws == {0, 99}

\* Canine.track_scent.  success_rate is in hundredths.
track_scent(self, scent_type, age_hours, difficulty, u1, u2, t) ==
    IF ~self.is_alive
    THEN Result(self, Returned("track_scent", "error", "dead"), 0)
    ELSE IF self.energy_level < Pt(20)
    THEN Result(self, Returned("track_scent", "insufficient_energy", "none"), 0)
    ELSE LET age_penalty == Min(50, age_hours * 2)
             difficulty_penalty ==
                 CASE difficulty = "easy" -> 0
                   [] difficulty = "medium" -> 10
                   [] difficulty = "hard" -> 20
                   [] difficulty = "extreme" -> 30
                   [] OTHER -> 10
             success_rate ==
                 Max(10, self.scent_tracking_ability - age_penalty - difficulty_penalty)
             energy_cost == Pt(15) + age_hours * 50 + difficulty_penalty * 50
             spent == [self EXCEPT !.energy_level = Max(0, @ - energy_cost)]
         IN  IF Bernoulli(u1, success_rate)
             THEN LET distance_tracked ==
                          50 + ((((self.pursuit_endurance_km * 3) \div 10) - 50) * u2)
                                  \div 100
                  IN  Result([spent EXCEPT
                                !.happiness_level = Min(Pt(100), @ + Pt(15)),
                                !.tracking_records = Append(@,
                                    AnimalRecord("tracking_success",
                                                 <<scent_type, distance_tracked>>, t))],
                             Returned("track_scent", "success", "none"), 2)
             ELSE Result([spent EXCEPT
                            !.happiness_level = Max(0, @ - Pt(8)),
                            !.tracking_records = Append(@,
                                AnimalRecord("tracking_failed", <<scent_type>>, t))],
                         Returned("track_scent", "failed", "none"), 1)

\* Canine.dig_hole: the hole's location is named by its number among the
\* digging spots, <<"spot", n>>; a place the caller names is <<name, 0>>.
dig_hole(self, purpose, depth_cm, t) ==
    IF ~self.is_alive
    THEN Result(self, Returned("dig_hole", "error", "dead"), 0)
    ELSE IF self.energy_level < Pt(25)
    THEN Result(self, Returned("dig_hole", "insufficient_energy", "none"), 0)
    ELSE LET energy_cost == depth_cm * 50
             dig_spot == [location |-> <<"spot", Len(self.digging_spots) + 1>>,
                          purpose |-> purpose, depth_cm |-> depth_cm,
                          timestamp |-> t, success |-> TRUE]
             dug == [self EXCEPT
                       !.energy_level = Max(0, @ - energy_cost),
                       !.digging_spots = Append(@, dig_spot),
                       !.happiness_level = Min(Pt(100), @ + Pt(10))]
         IN  Result(LogActivity(dug, "dig", <<depth_cm, purpose>>, t),
                    Returned("dig_hole", "success", "none"), 0)

\* The buried_items entry and the record bury_item adds once it has a location.
BuryAt(self, item, location, t) ==
    LET buried_item == [item |-> item, location |-> location, burial_date |-> t,
                        retrieval_date |-> None, condition |-> "fresh"]
        buried == [self EXCEPT !.buried_items = Append(@, buried_item)]
    IN  Result(LogActivity(buried, "bury", <<location, item>>, t),
               Returned("bury_item", "success", "none"), 0)

\* Canine.bury_item: no test of is_alive; without a location it reuses the
\* last hole dug for "store_food" or "storage", or calls dig_hole("storage", 25).
bury_item(self, item, location, t) ==
    IF location # None
    THEN BuryAt(self, item, location, t)
    ELSE LET available_spots ==
                 {i \in 1..Len(self.digging_spots) :
                    self.digging_spots[i].purpose \in {"store_food", "storage"}}
         IN  IF available_spots # {}
             THEN LET last == CHOOSE i \in available_spots :
                                  \A j \in available_spots : j <= i
                  IN  BuryAt(self, item, self.digging_spots[last].location, t)
             ELSE LET dig_result == dig_hole(self, "storage", 25, t)
                  IN  IF dig_result.ret.status = "success"
                      THEN BuryAt(dig_result.self, item,
                                  <<"spot", Len(self.digging_spots) + 1>>, t)
                      ELSE Result(dig_result.self,
                                  [dig_result.ret EXCEPT !.op = "bury_item"], 0)

\* A variant of the target search that does not look at retrieval_date.
TargetItemsAnyDate(self, item, location) ==
    {i \in 1..Len(self.buried_items) :
        \/ item # None /\ Some(self.buried_items[i].item) = item
        \/ location # None /\ self.buried_items[i].location = location
        \/ item = None /\ location = None}

\* The unretrieved entries of buried_items that match the filter.
TargetItems(self, item, location) ==
    {i \in 1..Len(self.buried_items) :
        /\ self.buried_items[i].retrieval_date = None
        /\ \/ item # None /\ Some(self.buried_items[i].item) = item
           \/ location # None /\ self.buried_items[i].location = location
           \/ item = None /\ location = None}

\* Canine.retrieve_buried_item: pick is the entry random.choice takes among
\* the targets.
retrieve_buried_item(self, item, location, pick, t) ==
    IF Len(self.buried_items) = 0
    THEN Result(self, Returned("retrieve_buried_item", "not_found", "nothing_buried"), 0)
    ELSE IF TargetItems(self, item, location) = {}
    THEN Result(self, Returned("retrieve_buried_item", "not_found", "no_match"), 0)
    ELSE LET burial_duration_days ==
                 Days(t - self.buried_items[pick].burial_date)
             condition == IF burial_duration_days > 7 THEN "spoiled"
                          ELSE IF burial_duration_days > 3 THEN "fair"
                          ELSE "good"
             dug_up == [self EXCEPT
                          !.buried_items[pick].retrieval_date = Some(t),
                          !.buried_items[pick].condition = condition,
                          !.happiness_level = Min(Pt(100), @ + Pt(12))]
         IN  Result(LogActivity(dug_up, "retrieve",
                                <<self.buried_items[pick].location,
                                  self.buried_items[pick].item>>, t),
                    Returned("retrieve_buried_item", "success", "none"), 1)

\* Canine.play_with_object: energy_cost = duration * 0.8,
\* happiness_gain = duration * 1.2 + playfulness / 10; the enjoyment level is
\* a draw of uniform(0.7, 1.0), in hundredths.
play_with_object(self, object_type, duration_minutes, u, t) ==
    IF ~self.is_alive
    THEN Result(self, Returned("play_with_object", "error", "dead"), 0)
    ELSE IF self.energy_level < Pt(15)
    THEN Result(self, Returned("play_with_object", "insufficient_energy", "none"), 0)
    ELSE LET energy_cost == duration_minutes * 80
             happiness_gain == duration_minutes * 120 + self.playfulness * 10
             play_session == [object |-> object_type,
                              duration_minutes |-> duration_minutes,
                              timestamp |-> t,
                              enjoyment_level |-> 70 + (30 * u) \div 100,
                              energy_spent |-> energy_cost]
             played == [self EXCEPT
                          !.energy_level = Max(0, @ - energy_cost),
                          !.happiness_level = Min(Pt(100), @ + happiness_gain),
                          !.play_sessions = Append(@, play_session)]
         IN  Result(LogActivity(played, "play", <<object_type, duration_minutes>>, t),
                    Returned("play_with_object", "success", "none"), 1)

\* The success rate of learn_command in thousandths.
LearnRate(self, repetitions) ==
    LET base == self.trainability_score + Min(30, repetitions * 2)
        aged == IF self.age > 8 THEN base * 8
                ELSE IF self.age < 2 THEN base * 12
                ELSE base * 10
    IN  Min(950, aged)

\* A plausible slip: the command is not looked up in learned_commands first.
learn_command_again(self, command, trainer, repetitions, u, t) ==
    IF u * 10 <= LearnRate(self, repetitions)
    THEN Result([self EXCEPT
                    !.learned_commands = Append(@, command),
                    !.happiness_level = Min(Pt(100), @ + Pt(8)),
                    !.training_sessions = Append(@,
                        AnimalRecord("command_learned", <<command, repetitions>>, t))],
                Returned("learn_command", "success", "none"), 1)
    ELSE Result([self EXCEPT
                    !.training_sessions = Append(@,
                        AnimalRecord("training_attempt", <<command>>, t))],
                Returned("learn_command", "progress", "none"), 1)

\* Canine.learn_command: no test of is_alive; the session goes to
\* training_sessions, not to the activity log.
learn_command(self, command, trainer, repetitions, u, t) ==
    IF \E i \in 1..Len(self.learned_commands) : self.learned_commands[i] = command
    THEN Result(self, Returned("learn_command", "already_known", "none"), 0)
    ELSE IF u * 10 <= LearnRate(self, repetitions)
    THEN Result([self EXCEPT
                    !.learned_commands = Append(@, command),
                    !.happiness_level = Min(Pt(100), @ + Pt(8)),
                    !.training_sessions = Append(@,
                        AnimalRecord("command_learned", <<command, repetitions>>, t))],
                Returned("learn_command", "success", "none"), 1)
    ELSE Result([self EXCEPT
                    !.training_sessions = Append(@,
                        AnimalRecord("training_attempt", <<command>>, t))],
                Returned("learn_command", "progress", "none"), 1)

\* Canine.obey_command: success_rate = loyalty/100 * 0.7 + energy/100 * 0.3,
\* compared here in units of 1/100000.
obey_command(self, command, u, t) ==
    IF ~\E i \in 1..Len(self.learned_commands) : self.learned_commands[i] = command
    THEN Result(self, Returned("obey_command", "unknown_command", "none"), 0)
    ELSE IF u * 1000 <= self.loyalty_level * 700 + self.energy_level * 3
    THEN Result(LogActivity([self EXCEPT
                                !.happiness_level = Min(Pt(100), @ + Pt(5))],
                            "obey", <<command, "done">>, t),
                Returned("obey_command", "success", "none"), 1)
    ELSE Result(LogActivity(self, "obey", <<command, "not_done">>, t),
                Returned("obey_command", "failed", "none"), 1)

\* PackBehavior.join_pack: bonds[i] is the randint(30, 70) drawn for the
\* i-th member.
join_pack(self, pack_member_ids, initial_role, bonds, t) ==
    LET ids == {pack_member_ids[i] : i \in 1..Len(pack_member_ids)}
        drawn == [id \in ids |->
                    LET i == CHOOSE k \in 1..Len(pack_member_ids) :
                                 /\ pack_member_ids[k] = id
                                 /\ \A j \in 1..Len(pack_member_ids) :
                                        pack_member_ids[j] = id => j <= k
                    IN  RandInt(30, 70, bonds[i])]
    IN  Result([self EXCEPT
                    !.pack_members = pack_member_ids,
                    !.pack_role = initial_role,
                    !.loyalty_bonds = drawn @@ @,
                    !.pack_hierarchy_changes = Append(@,
                        AnimalRecord("pack_join", <<initial_role>>, t))],
               Returned("join_pack", "None", "none"), Len(pack_member_ids))

\* PackBehavior.leave_pack
leave_pack(self, reason, t) ==
    Result([self EXCEPT
                !.pack_members = <<>>,
                !.pack_role = "loner",
                !.loyalty_bonds = <<>>,
                !.pack_hierarchy_changes = Append(@,
                    AnimalRecord("pack_leave", <<reason>>, t))],
           Returned("leave_pack", "former_pack", "none"), 0)

\* A plausible slip: the dominance is changed without the clamps at 100 and 0.
challenge_hierarchy_unclamped(self, target_member_id, u, t) ==
    IF ~(\E i \in 1..Len(self.pack_members) : self.pack_members[i] = target_member_id)
    THEN Result(self, Returned("challenge_hierarchy", "error", "not_in_pack"), 0)
    ELSE IF self.pack_role = "pup"
    THEN Result(self, Returned("challenge_hierarchy", "error", "pup"), 0)
    ELSE IF 100 * u <= 3000 + 40 * self.dominance_level
    THEN LET old_role == self.pack_role
             new_role == CASE old_role = "member" -> "deputy"
                           [] old_role = "deputy" -> "leader"
                           [] OTHER -> old_role
         IN  Result([self EXCEPT
                        !.pack_role = new_role,
                        !.dominance_level = @ + 15,
                        !.pack_hierarchy_changes = Append(@,
                            AnimalRecord("hierarchy_challenge",
                                         <<old_role, new_role>>, t))],
                    Returned("challenge_hierarchy", "success", "none"), 1)
    ELSE Result([self EXCEPT
                    !.dominance_level = @ - 10,
                    !.pack_hierarchy_changes = Append(@,
                        AnimalRecord("hierarchy_challenge",
                                     <<target_member_id, "failed">>, t))],
                Returned("challenge_hierarchy", "failed", "none"), 1)

\* A plausible slip: a lost challenge costs the challenger one step of rank.
challenge_hierarchy_demoting(self, target_member_id, u, t) ==
    IF ~(\E i \in 1..Len(self.pack_members) : self.pack_members[i] = target_member_id)
    THEN Result(self, Returned("challenge_hierarchy", "error", "not_in_pack"), 0)
    ELSE IF self.pack_role = "pup"
    THEN Result(self, Returned("challenge_hierarchy", "error", "pup"), 0)
    ELSE IF 100 * u <= 3000 + 40 * self.dominance_level
    THEN LET old_role == self.pack_role
             new_role == CASE old_role = "member" -> "deputy"
                           [] old_role = "deputy" -> "leader"
                           [] OTHER -> old_role
         IN  Result([self EXCEPT
                        !.pack_role = new_role,
                        !.dominance_level = Min(100, @ + 15),
                        !.pack_hierarchy_changes = Append(@,
                            AnimalRecord("hierarchy_challenge",
                                         <<old_role, new_role>>, t))],
                    Returned("challenge_hierarchy", "success", "none"), 1)
    ELSE Result([self EXCEPT
                    !.pack_role = CASE @ = "leader" -> "deputy"
                                    [] @ = "deputy" -> "member"
                                    [] OTHER -> @,
                    !.dominance_level = Max(0, @ - 10),
                    !.pack_hierarchy_changes = Append(@,
                        AnimalRecord("hierarchy_challenge",
                                     <<target_member_id, "failed">>, t))],
                Returned("challenge_hierarchy", "failed", "none"), 1)

\* PackBehavior.challenge_hierarchy.  The draw succeeds when
\* random() <= 0.3 + dominance_level / 100 * 0.4, which in hundredths is
\* 100 * u <= 3000 + 40 * dominance_level.
challenge_hierarchy(self, target_member_id, u, t) ==
    IF ~(\E i \in 1..Len(self.pack_members) : self.pack_members[i] = target_member_id)
    THEN Result(self, Returned("challenge_hierarchy", "error", "not_in_pack"), 0)
    ELSE IF self.pack_role = "pup"
    THEN Result(self, Returned("challenge_hierarchy", "error", "pup"), 0)
    ELSE IF 100 * u <= 3000 + 40 * self.dominance_level
    THEN LET old_role == self.pack_role
             new_role == CASE old_role = "member" -> "deputy"
                           [] old_role = "deputy" -> "leader"
                           [] OTHER -> old_role
         IN  Result([self EXCEPT
                        !.pack_role = new_role,
                        !.dominance_level = Min(100, @ + 15),
                        !.pack_hierarchy_changes = Append(@,
                            AnimalRecord("hierarchy_challenge",
                                         <<old_role, new_role>>, t))],
                    Returned("challenge_hierarchy", "success", "none"), 1)
    ELSE Result([self EXCEPT
                    !.dominance_level = Max(0, @ - 10),
                    !.pack_hierarchy_changes = Append(@,
                        AnimalRecord("hierarchy_challenge",
                                     <<target_member_id, "failed">>, t))],
                Returned("challenge_hierarchy", "failed", "none"), 1)

\* PackBehavior.mark_territory: strength is a draw of uniform(0.7, 1.0), held
\* in ten-thousandths.
mark_territory(self, location, marking_type, u, t) ==
    Result([self EXCEPT
                !.territorial_markings = Append(@,
                    [location |-> location, type |-> marking_type,
                     timestamp |-> t, strength |-> 7000 + 30 * u]),
                !.dominance_level = Min(100, @ + 2)],
           Returned("mark_territory", "None", "none"), 1)

\* PackBehavior.coordinate_hunt's success rate in hundredths.
CoordinateRate(self, prey_size, pack_size) ==
    LET base_rate == CASE prey_size = "small" -> 80
                       [] prey_size = "medium" -> 60
                       [] prey_size = "large" -> 40
                       [] OTHER -> 60
        pack_bonus == Min(30, pack_size * 5)
        role_bonus == CASE self.pack_role = "leader" -> 10
                        [] self.pack_role = "deputy" -> 5
                        [] self.pack_role = "member" -> 0
                        [] self.pack_role = "pup" -> -10
                        [] OTHER -> 0
    IN  base_rate + pack_bonus + role_bonus

\* PackBehavior.coordinate_hunt
coordinate_hunt(self, prey_size, pack_size, u) ==
    IF Len(self.pack_members) = 0
    THEN Result(self, Returned("coordinate_hunt", "error", "no_pack"), 0)
    ELSE IF Bernoulli(u, CoordinateRate(self, prey_size, pack_size))
    THEN Result([self EXCEPT !.hunting_contributions = @ + 1],
                Returned("coordinate_hunt", "success", "none"), 1)
    ELSE Result(self, Returned("coordinate_hunt", "failed", "none"), 1)

\* Canine.hunt_as_pack: no test of is_alive; without a pack it is
\* hunt_prey(prey_type, 0.4); with one, coordinate_hunt draws the outcome, a
\* success shares the prey's energy by role and is logged, a failure costs 20
\* energy and 10 happiness and is not logged.
hunt_as_pack(self, prey_type, prey_size, u1, u2, t) ==
    IF Len(self.pack_members) = 0
    THEN LET alone == hunt_prey(self, prey_type, 40, u1, u2, t)
         IN  Result(alone.self, [alone.ret EXCEPT !.op = "hunt_as_pack"], alone.draws)
    ELSE LET pack_size == Len(self.pack_members)
         IN  IF Bernoulli(u1, CoordinateRate(self, prey_size, pack_size))
             THEN LET base_energy_gain == CASE prey_size = "small" -> 30
                                            [] prey_size = "medium" -> 50
                                            [] prey_size = "large" -> 80
                                            [] OTHER -> 50
                      role_multiplier == CASE self.pack_role = "leader" -> 13
                                           [] self.pack_role = "deputy" -> 11
                                           [] self.pack_role = "member" -> 10
                                           [] self.pack_role = "pup" -> 8
                                           [] OTHER -> 10
                      energy_gain == (base_energy_gain * 10 * role_multiplier)
                                         \div pack_size
                      shared == [self EXCEPT
                                   !.hunting_contributions = @ + 1,
                                   !.energy_level = Min(Pt(100), @ + energy_gain),
                                   !.happiness_level = Min(Pt(100), @ + Pt(20)),
                                   !.is_hungry = FALSE]
                  IN  Result(LogActivity(shared, "pack_hunt", <<prey_type, prey_size>>, t),
                             Returned("hunt_as_pack", "success", "none"), 1)
             ELSE Result([self EXCEPT
                            !.energy_level = Max(0, @ - Pt(20)),
                            !.happiness_level = Max(0, @ - Pt(10))],
                         Returned("hunt_as_pack", "failed", "none"), 1)

\* The members of other_canines that form_pack_with takes into the pack.
EligibleMembers(other_canines) ==
    SelectSeq(other_canines, LAMBDA canine : canine.pack_instinct /\ canine.is_alive)

\* Canine.form_pack_with.  After its three tests it sorts the participants
\* with the key (x.age, x.weight, x.dominance_level).  dominance_level is an
\* attribute of x.pack_behavior, not of the Canine x, so computing the first
\* key raises AttributeError: no join_pack is called, nothing is logged, and
\* the statements after the sort are never run.
form_pack_with(self, other_canines, t) ==
    IF ~self.pack_instinct
    THEN Result(self, Returned("form_pack_with", "error", "no_pack_instinct"), 0)
    ELSE IF Len(other_canines) < 1
    THEN Result(self, Returned("form_pack_with", "insufficient_members", "none"), 0)
    ELSE IF Len(EligibleMembers(other_canines)) < 1
    THEN Result(self, Returned("form_pack_with", "no_eligible_members", "none"), 0)
    ELSE Result(self, Raised("form_pack_with", "AttributeError", "dominance_level"), 0)

(***************************************************************************)
(* The state machine: one entity, its caller making one call per step.     *)
(***************************************************************************)
Genders == {"female"}

\* The replay harness at rest (Spec and SpecFeed never touch it).
NoReplay == [twin |-> <<>>, twin_rng |-> 0, seed |-> <<>>, rates |-> <<>>,
             outcomes |-> <<>>, twin_outcomes |-> <<>>]

Init ==
    /\ \E tier \in Tiers, age \in InitAges, weight \in InitWeights,
          gender \in Genders, profile \in Profiles, u \in InitDraws :
          animal = NewAnimal(tier, Dog, 0, age, weight, gender, profile, u, 0)
    /\ now = 0
    /\ ret = Returned("__init__", "None", "none")
    /\ rng = 0
    /\ replay = NoReplay
    /\ total_animals = 1
    /\ registry = Registered(EmptyRegistry, animal.tier, animal.species)
    /\ others = <<>>

\* One call of a method: the entity and the outcome it leaves, the draws it
\* took, and the tick of the clock it used.
CallWithin(res, last) ==
    /\ now < last
    /\ animal' = res.self
    /\ ret' = res.ret
    /\ rng' = rng + res.draws
    /\ now' = now + 1
    /\ UNCHANGED <<replay, total_animals, others, registry>>

Call(res) == CallWithin(res, MaxTime)

IsCanine == animal.tier = "Canine"

\* is_alive is a plain attribute: no method clears it, its owner does.
Die ==
    /\ animal.is_alive
    /\ animal' = [animal EXCEPT !.is_alive = FALSE]
    /\ ret' = Returned("set_is_alive", "None", "none")
    /\ UNCHANGED <<now, rng, replay, total_animals, others, registry>>

Feed == \E food_type \in FoodTypes : Call(feed(animal, food_type, 1, now))

Exercise == \E exercise_type \in ExerciseTypes :
                Call(exercise(animal, exercise_type, 30, now))

Sleep == \E duration \in SleepDurations : Call(sleep(animal, duration, now))

AgeUp(years) == \E u \in Draws : Call(age_up(animal, years, u, now))

AgeUpAny == \E years \in AgeSteps : AgeUp(years)

RegulateBodyTemperature ==
    \E ambient_temp \in AmbientTemps :
        Call(regulate_body_temperature(animal, ambient_temp, now))

GroomFur == Call(groom_fur(animal, 15, now))

ShedFur == \E season \in Seasons, u \in Draws : Call(shed_fur(animal, season, u, now))

NurseOffspring == \E offspring_count \in OffspringCounts :
                      Call(nurse_offspring(animal, offspring_count, now))

EstablishTerritory == \E size \in TerritorySizes :
                          Call(establish_territory(animal, size, now))

HuntPrey == \E prey_type \in PreyTypes, success_rate \in SuccessRates,
               u1 \in Draws, u2 \in Draws :
               Call(hunt_prey(animal, prey_type, success_rate, u1, u2, now))

Migrate == \E distance_km \in Distances : Call(migrate(animal, "south", distance_km, now))

PrepareForHibernation == Call(prepare_for_hibernation(animal, now))

TrackScent ==
    /\ IsCanine
    /\ \E scent_type \in ScentTypes, age_hours \in ScentAges,
          difficulty \in Difficulties, u1 \in Draws, u2 \in Draws :
          Call(track_scent(animal, scent_type, age_hours, difficulty, u1, u2, now))

DigHole ==
    /\ IsCanine
    /\ \E purpose \in Purposes, depth_cm \in Depths :
          Call(dig_hole(animal, purpose, depth_cm, now))

BuryItem ==
    /\ IsCanine
    /\ \E item \in Items, location \in Locations :
          Call(bury_item(animal, item, location, now))

RetrieveBuriedItem ==
    /\ IsCanine
    /\ \E item \in {None} \cup {Some(i) : i \in Items}, location \in Locations :
          LET targets == TargetItems(animal, item, location)
          IN  IF Len(animal.buried_items) = 0 \/ targets = {}
              THEN Call(retrieve_buried_item(animal, item, location, 0, now))
              ELSE \E pick \in targets :
                       Call(retrieve_buried_item(animal, item, location, pick, now))

PlayWithObject ==
    /\ IsCanine
    /\ \E duration \in PlayDurations, u \in Draws :
          Call(play_with_object(animal, "ball", duration, u, now))

LearnCommand ==
    /\ IsCanine
    /\ \E command \in Commands, u \in Draws :
          Call(learn_command(animal, command, "owner", 10, u, now))

ObeyCommand ==
    /\ IsCanine
    /\ \E command \in Commands, u \in Draws : Call(obey_command(animal, command, u, now))

JoinPack ==
    /\ IsCanine
    /\ \E ids \in PackIdLists, role \in JoinRoles :
          \E bonds \in [1..Len(ids) -> BondDraws] :
              Call(join_pack(animal, ids, role, bonds, now))

LeavePack ==
    /\ IsCanine
    /\ Call(leave_pack(animal, "natural", now))

HuntAsPack ==
    /\ IsCanine
    /\ \E prey_type \in PreyTypes, prey_size \in PreySizes, u1 \in Draws, u2 \in Draws :
          Call(hunt_as_pack(animal, prey_type, prey_size, u1, u2, now))

Next ==
    \/ Die
    \/ Feed
    \/ Exercise
    \/ Sleep
    \/ AgeUpAny
    \/ RegulateBodyTemperature
    \/ GroomFur
    \/ ShedFur
    \/ NurseOffspring
    \/ EstablishTerritory
    \/ HuntPrey
    \/ Migrate
    \/ PrepareForHibernation
    \/ TrackScent
    \/ DigHole
    \/ BuryItem
    \/ RetrieveBuriedItem
    \/ PlayWithObject
    \/ LearnCommand
    \/ ObeyCommand
    \/ JoinPack
    \/ LeavePack
    \/ HuntAsPack

Spec == Init /\ [][Next]_vars

(***************************************************************************)
(* SpecFeed: a living entity that is only ever fed.                        *)
(***************************************************************************)
FeedStep == \E food_type \in FoodTypes :
                CallWithin(feed(animal, food_type, 1, now), MaxFeeds)

NextFeed == FeedStep

SpecFeed == Init /\ [][NextFeed]_vars

(***************************************************************************)
(* SpecHunt: hunt_prey run twice from the same state with the same         *)
(* arguments and the same seed.  The source draws from the random module;  *)
(* random.seed(s) makes the draws that follow the sequence seed, and each  *)
(* run reads it from its own position.  rates[k] is the success_rate of    *)
(* the k-th hunt of either run.                                            *)
(***************************************************************************)
\* success_rate in hundredths: hunt_prey's default and hunt_as_pack's 0.4.
HuntRates == {60, 40}

\* The entity after k calls of exercise("walk", 30): the states the hunts
\* start from.
RECURSIVE Exercised(_, _)
Exercised(self, k) ==
    IF k = 0 THEN self
    ELSE Exercised(exercise(self, "walk", 30, 0).self, k - 1)

StartExercises == {0, 3, 5}

InitHunt ==
    /\ \E k \in StartExercises :
          animal = Exercised(NewAnimal("Mammal", Dog, 0, 1, 20000, "female",
                                       DefaultProfile, 50, 0), k)
    /\ now = 0
    /\ ret = Returned("__init__", "None", "none")
    /\ rng = 0
    /\ total_animals = 1
    /\ registry = Registered(EmptyRegistry, animal.tier, animal.species)
    /\ others = <<>>
    /\ \E seed \in [1..(2 * MaxHunts) -> Draws], rates \in [1..MaxHunts -> HuntRates] :
          replay = [twin |-> animal, twin_rng |-> 0, seed |-> seed, rates |-> rates,
                    outcomes |-> <<>>, twin_outcomes |-> <<>>]

\* The next hunt of the first run.
HuntFirst ==
    /\ Len(replay.outcomes) < MaxHunts
    /\ LET k == Len(replay.outcomes) + 1
           res == hunt_prey(animal, "rabbit", replay.rates[k],
                            replay.seed[rng + 1], replay.seed[rng + 2], now)
       IN  /\ animal' = res.self
           /\ ret' = res.ret
           /\ rng' = rng + res.draws
           /\ replay' = [replay EXCEPT !.outcomes = Append(@, res.ret)]
    /\ now' = now + 1
    /\ UNCHANGED <<total_animals, others, registry>>

\* The next hunt of the second run.
HuntTwin ==
    /\ Len(replay.twin_outcomes) < MaxHunts
    /\ LET k == Len(replay.twin_outcomes) + 1
           res == hunt_prey(replay.twin, "rabbit", replay.rates[k],
                            replay.seed[replay.twin_rng + 1],
                            replay.seed[replay.twin_rng + 2], now)
       IN  replay' = [replay EXCEPT
                        !.twin = res.self,
                        !.twin_rng = @ + res.draws,
                        !.twin_outcomes = Append(@, res.ret)]
    /\ now' = now + 1
    /\ UNCHANGED <<animal, ret, rng, total_animals, others, registry>>

NextHunt == HuntFirst \/ HuntTwin

SpecHunt == InitHunt /\ [][NextHunt]_vars

(***************************************************************************)
(* SpecKennel: a canine, the other canines constructed after it, and its   *)
(* attempts to form a pack with some of them.  Every construction reads    *)
(* the clock and Animal.total_animals for its id and counts itself.        *)
(***************************************************************************)
\* Animal.total_animals before the first canine is constructed: a fresh
\* process, and one that has already made 9998 animals.
InitTotals == {0, 9998}

\* The class counters of a process that has made total animals before, all of
\* them dogs constructed as Canine.
EarlierDogs(total) ==
    [species_registry |-> [s \in SpeciesNames |-> IF s = Dog THEN total ELSE 0],
     mammal_count |-> total, canine_count |-> total]

\* Canine.__init__'s pack_instinct argument.
WithPackInstinct(canine, pack_instinct) ==
    [canine EXCEPT !.pack_instinct = pack_instinct]

\* Canine(...) called with the clock at t.
NewCanine(species, total, age, pack_instinct, t) ==
    WithPackInstinct(NewAnimal("Canine", species, total, age, 20000, "female",
                               DefaultProfile, 50, t), pack_instinct)

\* The sub-lists of a list: its members at the chosen indices, in order.
SubLists(list) ==
    {SelectSeq([i \in 1..Len(list) |-> <<i, list[i]>>],
               LAMBDA pair : pair[1] \in chosen) : chosen \in SUBSET (1..Len(list))}

Members(pairs) == [i \in 1..Len(pairs) |-> pairs[i][2]]

InitKennel ==
    /\ \E species \in SpeciesNames, total \in InitTotals, pack_instinct \in BOOLEAN :
          /\ animal = NewCanine(species, total, 3, pack_instinct, 0)
          /\ total_animals = total + 1
          /\ registry = Registered(EarlierDogs(total), "Canine", species)
    /\ others = <<>>
    /\ now = 0
    /\ ret = Returned("__init__", "None", "none")
    /\ rng = 0
    /\ replay = NoReplay

\* Another canine is constructed.
Construct ==
    /\ now < MaxKennelCalls
    /\ Len(others) < MaxCanines
    /\ \E species \in SpeciesNames, age \in InitAges, pack_instinct \in BOOLEAN :
          /\ others' = Append(others,
                              NewCanine(species, total_animals, age, pack_instinct, now))
          /\ registry' = Registered(registry, "Canine", species)
    /\ total_animals' = total_animals + 1
    /\ ret' = Returned("__init__", "None", "none")
    /\ now' = now + 1
    /\ UNCHANGED <<animal, rng, replay>>

\* The owner of another canine clears its is_alive.
DieOther ==
    /\ \E i \in 1..Len(others) :
          /\ others[i].is_alive
          /\ others' = [others EXCEPT ![i].is_alive = FALSE]
    /\ ret' = Returned("set_is_alive", "None", "none")
    /\ UNCHANGED <<animal, now, rng, replay, total_animals, registry>>

FormPackWith ==
    \E picked \in SubLists(others) :
        CallWithin(form_pack_with(animal, Members(picked), now), MaxKennelCalls)

NextKennel == Construct \/ DieOther \/ FormPackWith

SpecKennel == InitKennel /\ [][NextKennel]_vars

(***************************************************************************)
(* SpecPackOps: the PackBehavior of one canine, its caller making only     *)
(* PackBehavior calls.                                                     *)
(***************************************************************************)
\* The list of ids join_pack is given in SpecPackOps.
PackOpsIdLists == {<<"CAN2", "CAN1">>}

\* challenge_hierarchy's target: a member of the pack join_pack is given (it
\* is a stranger before the pack is joined and after it is left).
ChallengeTargets == {"CAN2"}

\* The role join_pack is given in SpecPackOps: the default, and the one
\* challenge_hierarchy refuses.
PackRoles == {"member", "pup"}

\* The draws that decide a challenge: the lowest and the highest.
PackDraws == {0, 99}

\* The draw that decides a coordinated hunt.
CoordinateDraws == {0}

InitPackOps ==
    /\ animal = NewCanine(Dog, 0, 3, TRUE, 0)
    /\ now = 0
    /\ ret = Returned("__init__", "None", "none")
    /\ rng = 0
    /\ replay = NoReplay
    /\ total_animals = 1
    /\ registry = Registered(EmptyRegistry, animal.tier, animal.species)
    /\ others = <<>>

PackCall(res) == CallWithin(res, MaxPackOps)

PackJoin ==
    \E ids \in PackOpsIdLists, role \in PackRoles :
        PackCall(join_pack(animal, ids, role, [i \in 1..Len(ids) |-> 50], now))

PackLeave == PackCall(leave_pack(animal, "natural", now))

ChallengeHierarchy ==
    \E target \in ChallengeTargets, u \in PackDraws :
        PackCall(challenge_hierarchy(animal, target, u, now))

MarkTerritory == PackCall(mark_territory(animal, "tree", "urine", 50, now))

CoordinateHunt ==
    \E u \in CoordinateDraws :
        PackCall(coordinate_hunt(animal, "large", Len(animal.pack_members), u))

NextPackOps ==
    \/ PackJoin
    \/ PackLeave
    \/ ChallengeHierarchy
    \/ MarkTerritory
    \/ CoordinateHunt

SpecPackOps == InitPackOps /\ [][NextPackOps]_vars

(***************************************************************************)
(* SpecBreeding: the MammalBreeding of one mammal over two months.  Here   *)
(* the clock is moved by the time that passes between the calls; a call    *)
(* itself takes no time.                                                   *)
(***************************************************************************)
\* The time that passes between two calls: a fortnight, a tick less than
\* thirty days, and thirty days.
ElapseSpans == {14 * TicksPerDay, 30 * TicksPerDay - 1, 30 * TicksPerDay}

\* set_mating_season's arguments: a season within the year, one across the
\* new year, and a month out of range.
MatingSeasons == {<<1, 2>>, <<11, 1>>, <<0, 5>>}

\* The draws that decide a mating: the lowest and the highest.
MatingDraws == {0, 99}

InitBreeding ==
    /\ animal = NewAnimal("Mammal", Dog, 0, 3, 20000, "female", DefaultProfile, 50, 0)
    /\ now = 0
    /\ ret = Returned("__init__", "None", "none")
    /\ rng = 0
    /\ replay = NoReplay
    /\ total_animals = 1
    /\ registry = Registered(EmptyRegistry, animal.tier, animal.species)
    /\ others = <<>>

\* Time passes.
Elapse ==
    /\ \E span \in ElapseSpans :
          /\ now + span <= MaxBreedingDays * TicksPerDay
          /\ now' = now + span
    /\ ret' = Returned("elapse", "None", "none")
    /\ UNCHANGED <<animal, rng, replay, total_animals, others, registry>>

\* A call that reads the clock and leaves it where it is.
CallAtOnce(res) ==
    /\ animal' = res.self
    /\ ret' = res.ret
    /\ rng' = rng + res.draws
    /\ UNCHANGED <<now, replay, total_animals, others, registry>>

SetMatingSeason ==
    \E season \in MatingSeasons :
        CallAtOnce(set_mating_season(animal, season[1], season[2]))

\* is_fertile is a plain attribute: its owner clears it.
SetInfertile ==
    /\ animal.is_fertile
    /\ animal' = [animal EXCEPT !.is_fertile = FALSE]
    /\ ret' = Returned("set_is_fertile", "None", "none")
    /\ UNCHANGED <<now, rng, replay, total_animals, others, registry>>

AttemptMating ==
    /\ rng < MaxMatingDraws
    /\ \E u \in MatingDraws : CallAtOnce(attempt_mating(animal, "partner", u, now))

NextBreeding == Elapse \/ SetMatingSeason \/ SetInfertile \/ AttemptMating

SpecBreeding == InitBreeding /\ [][NextBreeding]_vars

(***************************************************************************)
(* SpecHealth: the vaccination records of one animal over two months.      *)
(***************************************************************************)
Vaccines == {"rabies", "distemper"}

\* add_vaccination's next_due: none, or the time from the vaccination to it.
NextDueSpans == {None, Some(14 * TicksPerDay)}

AddVaccination ==
    /\ Len(animal.vaccinations) < MaxVaccinations
    /\ \E vaccine_name \in Vaccines, span \in NextDueSpans :
          LET next_due == IF span = None THEN None ELSE Some(now + span[1])
          IN  CallAtOnce(add_vaccination(animal, vaccine_name, now, next_due, now))

\* The caller asks whether a vaccination is due.
IsVaccinationDue ==
    /\ \E vaccine_name \in Vaccines :
          ret' = Returned("is_vaccination_due",
                          IF is_vaccination_due(animal, vaccine_name, now)
                          THEN "True" ELSE "False",
                          vaccine_name)
    /\ UNCHANGED <<animal, now, rng, replay, total_animals, others, registry>>

NextHealth == Elapse \/ AddVaccination \/ IsVaccinationDue

SpecHealth == InitBreeding /\ [][NextHealth]_vars

(***************************************************************************)
(* SpecMigrate: a mammal that migrates and exercises.                      *)
(***************************************************************************)
\* A species given a migration_pattern and nothing else: max_speed_kmh is the
\* constructor's 0.0.
SlowMigratoryProfile == [DefaultProfile EXCEPT !.migration_pattern = "seasonal"]

MigrantProfiles == Profiles \cup {SlowMigratoryProfile}

InitMigrate ==
    /\ \E tier \in Tiers, profile \in MigrantProfiles :
          animal = NewAnimal(tier, Dog, 0, 3, 20000, "female", profile, 50, 0)
    /\ now = 0
    /\ ret = Returned("__init__", "None", "none")
    /\ rng = 0
    /\ replay = NoReplay
    /\ total_animals = 1
    /\ registry = Registered(EmptyRegistry, animal.tier, animal.species)
    /\ others = <<>>

MigrateStep ==
    \E distance_km \in Distances :
        CallWithin(migrate(animal, "south", distance_km, now), MaxMigrations)

MigrantExercise ==
    \E exercise_type \in ExerciseTypes :
        CallWithin(exercise(animal, exercise_type, 30, now), MaxMigrations)

NextMigrate == MigrateStep \/ MigrantExercise

SpecMigrate == InitMigrate /\ [][NextMigrate]_vars

(***************************************************************************)
(* Properties.                                                             *)
(***************************************************************************)
\* A step that is a call of a method (Die writes an attribute, a stuttering
\* step does nothing).
IsCall == now' # now

\* An outcome that tells the caller the call was refused.
Rejected(r) ==
    \/ r.exc # "none"
    \/ r.status \in {"error", "insufficient_energy", "already_known",
                     "unknown_command", "not_applicable", "not_found"}

\* An outcome that reports a dead entity.
InvalidState(r) == r.message = "dead" /\ Rejected(r)

\* An outcome that reports too little energy.
InsufficientEnergy(r) ==
    \/ r.exc = "none" /\ r.status = "insufficient_energy"
    \/ r.exc = "ValueError" /\ r.message = "too_tired"

\* C1: in every state reachable by the stat-mutating operations called with
\* any argument values, energy_level and happiness_level are within 0..100.
\* Violated: sleep(-21) on the constructed entity leaves energy_level at -5.
CE_C1_StatsInRange ==
    /\ 0 <= animal.energy_level /\ animal.energy_level <= Pt(100)
    /\ 0 <= animal.happiness_level /\ animal.happiness_level <= Pt(100)

\* C2: after every call of a sequence of feed calls on a living entity that
\* starts in its constructed state, energy_level and happiness_level are
\* neither above 100 nor below 0.
Thm_C2_FeedKeepsRange ==
    ret.op \in {"__init__", "feed"} =>
        /\ animal.energy_level \in 0..Pt(100)
        /\ animal.happiness_level \in 0..Pt(100)

\* C2's case: feed calls made while both values are already at 100.
Wit_C2_FedAtSaturation ==
    /\ ret.op = "feed"
    /\ Len(animal.activity_log) >= 7
    /\ animal.energy_level = Pt(100)
    /\ animal.happiness_level = Pt(100)

\* C3: a dead entity rejects feed, exercise and hunt_prey with an
\* invalid-state error, whatever its energy is.
\* Violated: hunt_prey never tests is_alive and hunts for a dead entity.
CE_C3_DeadRejected ==
    (~animal.is_alive /\ ret.op \in {"feed", "exercise", "hunt_prey"})
        => InvalidState(ret)

\* C4: if is_alive is False before a call, then energy_level,
\* happiness_level and the activity log are the same after it.
\* Violated: hunt_prey, learn_command, hunt_as_pack (and others) mutate a
\* dead entity.
CE_C4_DeadUnchanged ==
    [][(IsCall /\ ~animal.is_alive) =>
          /\ animal'.energy_level = animal.energy_level
          /\ animal'.happiness_level = animal.happiness_level
          /\ animal'.activity_log = animal.activity_log]_vars

\* What C5 compares of two entities.
Observed(a) ==
    <<a.energy_level, a.happiness_level, a.is_hungry, Len(a.activity_log)>>

Thm_C6_AgeUpOne ==
    [][(animal.is_alive /\ AgeUp(1)) =>
          /\ animal'.age = animal.age + 1
          /\ Len(animal'.activity_log) = Len(animal.activity_log) + 1
          /\ IsPrefix(animal.activity_log, animal'.activity_log)]_vars

\* C6's case: age_up(1) took a living nine-year-old into old age.
Wit_C6_GrownOld ==
    /\ ret.op = "age_up"
    /\ animal.is_alive
    /\ animal.age = 10
    /\ animal.health_status = "old"
    /\ Len(animal.medical_records) = 1

\* C7: a call of feed, exercise, sleep, age_up, hunt_prey, hunt_as_pack,
\* learn_command, track_scent, dig_hole, bury_item or play_with_object that
\* is not rejected appends exactly one record to activity_log, on either
\* outcome of its draw; a rejected call (sleep and age_up on a dead entity
\* included) appends none.
\* Violated: track_scent and learn_command log elsewhere, a failed pack hunt
\* logs nothing, bury_item that digs its hole logs two records.
CE_C7_OneRecordPerCall ==
    [][(IsCall /\ ret'.op \in {"feed", "exercise", "sleep", "age_up", "hunt_prey",
                               "hunt_as_pack", "learn_command", "track_scent",
                               "dig_hole", "bury_item", "play_with_object"}) =>
          IF Rejected(ret') \/ (ret'.op \in {"sleep", "age_up"} /\ ~animal.is_alive)
          THEN animal'.activity_log = animal.activity_log
          ELSE /\ Len(animal'.activity_log) = Len(animal.activity_log) + 1
               /\ IsPrefix(animal.activity_log, animal'.activity_log)]_vars

\* C8: the activity log is append-only: the log before any step is a prefix
\* of the log after it.
Thm_C8_LogAppendOnly ==
    [][IsPrefix(animal.activity_log, animal'.activity_log)]_vars

\* C8's case: two calls have added their records to a canine's three
\* construction records.
Wit_C8_LogGrown ==
    /\ Len(animal.activity_log) >= 5
    /\ now >= 2

\* C9: feed and exercise on a dead entity, and exercise on an entity with
\* energy below 20, return an error outcome and raise no exception.
\* Violated: all three raise ValueError.
CE_C9_ErrorsReturned ==
    [][(/\ IsCall
        /\ ret'.op \in {"feed", "exercise"}
        /\ \/ ~animal.is_alive
           \/ ret'.op = "exercise" /\ animal.energy_level < Pt(20)) =>
          (ret'.exc = "none" /\ Rejected(ret'))]_vars

\* The energy below which the operation refuses a living entity.
BelowThreshold(op, energy) ==
    \/ op = "exercise" /\ energy < Pt(20)
    \/ op = "hunt_prey" /\ energy < Pt(30)
    \/ op = "track_scent" /\ energy < Pt(20)
    \/ op = "dig_hole" /\ energy < Pt(25)
    \/ op = "play_with_object" /\ energy < Pt(15)

\* C10: a call of exercise, hunt_prey, track_scent, dig_hole or
\* play_with_object on a living entity whose energy is below the operation's
\* threshold ends with an insufficient-energy outcome, leaves every
\* attribute of the entity as it was and takes no random draw.
Thm_C10_LowEnergyNoEffect ==
    [][(IsCall /\ animal.is_alive /\ BelowThreshold(ret'.op, animal.energy_level)) =>
          /\ InsufficientEnergy(ret')
          /\ animal' = animal
          /\ rng' = rng]_vars

\* C10's case: a living entity out of energy was refused a hunt.
Wit_C10_HuntRefused ==
    /\ animal.is_alive
    /\ ret.op = "hunt_prey"
    /\ ret.status = "insufficient_energy"
    /\ animal.energy_level < Pt(30)

\* C11: sleep and age_up called on a dead entity end with an invalid-state
\* error outcome, which a successful call never gives, and leave the entity
\* as it was.
\* Violated: both return None for a dead entity, exactly as they do for a
\* living one.
CE_C11_DeadSleepReported ==
    [][(IsCall /\ ~animal.is_alive /\ ret'.op \in {"sleep", "age_up"}) =>
          /\ InvalidState(ret')
          /\ animal' = animal]_vars

\* C12: a rejected call of exercise, track_scent, dig_hole or
\* play_with_object reports exactly one of the two error kinds: the
\* invalid-state one when the entity is dead, whatever its energy is, and the
\* insufficient-energy one when it is alive and below the threshold.
Thm_C12_OneErrorKind ==
    [][(/\ IsCall
        /\ ret'.op \in {"exercise", "track_scent", "dig_hole", "play_with_object"}
        /\ Rejected(ret')) =>
          /\ InvalidState(ret') # InsufficientEnergy(ret')
          /\ InvalidState(ret') <=> ~animal.is_alive
          /\ InsufficientEnergy(ret') <=>
                 (animal.is_alive /\ BelowThreshold(ret'.op, animal.energy_level))]_vars

\* C12's case: a dead entity that is also out of energy was refused exercise
\* as dead.
Wit_C12_DeadAndTired ==
    /\ ~animal.is_alive
    /\ animal.energy_level < Pt(20)
    /\ ret.op = "exercise"
    /\ InvalidState(ret)

\* C13: in every reachable state of a living entity, feed followed by
\* exercise ends with exercise accepted, and two feeds followed by hunt_prey
\* end with hunt_prey past its energy test.
\* Violated: after sleep(-21) the energy is -5, one feed leaves 15 and
\* exercise is refused.
CE_C13_FeedRecovers ==
    animal.is_alive =>
        LET fed1 == feed(animal, "normal_food", 1, now).self
            fed2 == feed(fed1, "normal_food", 1, now).self
        IN  /\ fed1.energy_level >= Pt(20)
            /\ ~Rejected(exercise(fed1, "walk", 30, now).ret)
            /\ fed2.energy_level >= Pt(30)
            /\ ~InsufficientEnergy(hunt_prey(fed2, "rabbit", 60, 0, 0, now).ret)

\* The roles of the canines form_pack_with puts in one pack: the caller and
\* the eligible members of its argument.
Participants(self, other_canines) == <<self>> \o EligibleMembers(other_canines)

\* C14: in every reachable state, form_pack_with called by a canine with
\* pack instinct on a list holding at least one living canine with pack
\* instinct returns status 'success'; after it exactly one participant is
\* the leader, there is a deputy only among more than two participants, and
\* every participant's pack_members is the list of all participants' ids.
\* Violated: the call raises AttributeError and forms no pack.
CE_C14_PackFormed ==
    \A picked \in SubLists(others) :
        LET other_canines == Members(picked)
            res == form_pack_with(animal, other_canines, now)
            pack == Participants(res.self, other_canines)
            ids == {pack[i].animal_id : i \in 1..Len(pack)}
        IN  (animal.pack_instinct /\ Len(EligibleMembers(other_canines)) >= 1) =>
                /\ res.ret.exc = "none"
                /\ res.ret.status = "success"
                /\ Cardinality({i \in 1..Len(pack) : pack[i].pack_role = "leader"}) = 1
                /\ (\E i \in 1..Len(pack) : pack[i].pack_role = "deputy")
                       => Len(pack) > 2
                /\ \A i \in 1..Len(pack) :
                       /\ pack[i].pack_members = pack[1].pack_members
                       /\ {pack[i].pack_members[k] :
                               k \in 1..Len(pack[i].pack_members)} = ids

\* Every animal constructed so far.
Constructed == <<animal>> \o others

\* The clock's second an animal was constructed in (its first log record).
ConstructedAt(a) == Second(a.activity_log[1].timestamp)

\* C18: any two animals constructed so far have different animal_id values
\* and do not compare equal under __eq__, also when they are of the same
\* species and were constructed within the same second.
Thm_C18_AnimalIdsUnique ==
    \A i, j \in 1..Len(Constructed) :
        i # j => /\ Constructed[i].animal_id # Constructed[j].animal_id
                 /\ ~AnimalEq(Constructed[i], Constructed[j])

\* C18's case: three animals constructed within one second whose species
\* give the same prefix, the count passing from four digits to five.
Wit_C18_SameSecondSamePrefix ==
    /\ Len(Constructed) = 3
    /\ total_animals = 10001
    /\ \A i \in 1..Len(Constructed) :
           /\ ConstructedAt(Constructed[i]) = ConstructedAt(animal)
           /\ SpeciesPrefix(Constructed[i].species) = SpeciesPrefix(animal.species)
    /\ \E i \in 1..Len(Constructed) : Constructed[i].species # animal.species

\* The last record of a log.
LastRecord(log) == log[Len(log)]

\* C15: feed on a living entity leaves energy_level at exactly
\* min(100, energy + 20) and happiness_level at exactly
\* min(100, happiness + 10); a value that is 100 before the call is 100
\* after it.
Thm_C15_FeedSaturates ==
    [][(IsCall /\ animal.is_alive /\ ret'.op = "feed") =>
          /\ animal'.energy_level = Min(Pt(100), animal.energy_level + Pt(20))
          /\ animal'.happiness_level = Min(Pt(100), animal.happiness_level + Pt(10))
          /\ animal.energy_level = Pt(100) => animal'.energy_level = Pt(100)
          /\ animal.happiness_level = Pt(100) => animal'.happiness_level = Pt(100)]_vars

\* C15's case: an entity fed right after a successful hunt had taken both
\* values to 100.
Wit_C15_FedAtFull ==
    /\ ret.op = "feed"
    /\ Len(animal.activity_log) >= 2
    /\ animal.activity_log[Len(animal.activity_log) - 1].record_type = "hunt"
    /\ animal.energy_level = Pt(100)
    /\ animal.happiness_level = Pt(100)

\* C16: is_sleeping is False in every state a caller observes, and a sleep
\* call on a living entity leaves energy_level at min(100, energy + 5 * d),
\* d being the duration it logged.
Thm_C16_SleepAtomic ==
    /\ [](~animal.is_sleeping)
    /\ [][(IsCall /\ animal.is_alive /\ ret'.op = "sleep") =>
              LET d == LastRecord(animal'.activity_log).description[1]
              IN  /\ LastRecord(animal'.activity_log).record_type = "rest"
                  /\ animal'.energy_level =
                         Min(Pt(100), animal.energy_level + Pt(5 * d))]_vars

\* C16's case: a living entity has slept after an exercise and is awake.
Wit_C16_SleptAndAwake ==
    /\ ret.op = "sleep"
    /\ animal.is_alive
    /\ ~animal.is_sleeping
    /\ Len(animal.favorite_activities) = 1
    /\ LastRecord(animal.activity_log).record_type = "rest"

\* C17: hunt_prey on an entity with energy e >= 30 either fails, leaving
\* energy e - 25 and happiness max(0, h - 10), or succeeds, leaving energy
\* min(100, e - 25 + gain) for a gain within 40..60, happiness
\* min(100, h + 20) and is_hungry False, and then the energy is not lower
\* than before the call.
\* Violated: an entity whose energy nurse_offspring(-5) raised to 130 is left
\* with 100 by a successful hunt.
CE_C17_HuntEffects ==
    [][(IsCall /\ ret'.op = "hunt_prey" /\ animal.energy_level >= Pt(30)) =>
          LET spent == animal.energy_level - Pt(25)
          IN  \/ /\ ret'.status = "failed"
                  /\ animal'.energy_level = spent
                  /\ animal'.happiness_level = Max(0, animal.happiness_level - Pt(10))
              \/ /\ ret'.status = "success"
                  /\ \/ /\ animal'.energy_level < Pt(100)
                        /\ animal'.energy_level - spent >= Pt(40)
                        /\ animal'.energy_level - spent <= Pt(60)
                     \/ /\ animal'.energy_level = Pt(100)
                        /\ spent + Pt(60) >= Pt(100)
                  /\ animal'.happiness_level = Min(Pt(100), animal.happiness_level + Pt(20))
                  /\ ~animal'.is_hungry
                  /\ animal'.energy_level >= animal.energy_level]_vars

\* C19: any two records of the activity log have different ids.
\* Violated: two feed calls within one second log two records with the id
\* made of "feed" and that second.
CE_C19_RecordIdsUnique ==
    \A i, j \in 1..Len(animal.activity_log) :
        i # j => animal.activity_log[i].id # animal.activity_log[j].id

\* C20: after any sequence of join_pack, leave_pack, challenge_hierarchy,
\* mark_territory and coordinate_hunt calls, dominance_level is within
\* 0..100.
Thm_C20_DominanceInRange ==
    /\ animal.dominance_level >= 0
    /\ animal.dominance_level <= 100

\* C20's case: a challenge won at dominance 95, which leaves it at 100.
Wit_C20_DominanceAtTop ==
    /\ ret.op = "challenge_hierarchy"
    /\ ret.status = "success"
    /\ animal.dominance_level = 100
    /\ Len(animal.pack_hierarchy_changes) >= 5

\* C21: the successful matings recorded are pairwise at least 30 days apart,
\* and an attempt made less than 30 days after the last successful one is
\* refused, takes no draw and leaves last_mating_attempt and
\* breeding_records as they were.
Thm_C21_MatingsThirtyDaysApart ==
    /\ [](\A i, j \in 1..Len(animal.breeding_records) :
              i < j => animal.breeding_records[j].timestamp
                          - animal.breeding_records[i].timestamp >= 30 * TicksPerDay)
    /\ [][(/\ ret'.op = "attempt_mating"
            /\ now' = now
            /\ animal.last_mating_attempt # None
            /\ now - animal.last_mating_attempt[1] < 30 * TicksPerDay) =>
              /\ ret'.status = "False"
              /\ rng' = rng
              /\ animal'.last_mating_attempt = animal.last_mating_attempt
              /\ animal'.breeding_records = animal.breeding_records]_vars

\* C21's case: after two successful matings an attempt was refused as too
\* soon.
Wit_C21_RefusedAfterTwo ==
    /\ Len(animal.breeding_records) = 2
    /\ ret.op = "attempt_mating"
    /\ ret.message = "too_soon"
    /\ now > animal.last_mating_attempt[1]

\* C22: in every reachable state, is_vaccination_due(v) is True when no
\* record of v exists, and is False right after add_vaccination(v, date,
\* next_due) with next_due in the future, whatever the earlier records of v
\* are.
\* Violated: with an earlier record of v whose next_due has passed, the
\* answer after the new vaccination is still True.
CE_C22_DueAfterVaccination ==
    \A vaccine_name \in Vaccines :
        /\ (\A i \in 1..Len(animal.vaccinations) :
                animal.vaccinations[i].vaccine # vaccine_name)
               => is_vaccination_due(animal, vaccine_name, now)
        /\ LET next_due == Some(now + 14 * TicksPerDay)
               vaccinated == add_vaccination(animal, vaccine_name, now,
                                             next_due, now).self
           IN  ~is_vaccination_due(vaccinated, vaccine_name, now)

\* C23: a migrate call on an entity whose migration_pattern is not "none"
\* returns 'success' or 'insufficient_energy' and raises nothing, whatever
\* max_speed_kmh is; on 'insufficient_energy' energy_level and
\* happiness_level are as before.
\* Violated: with the constructor's max_speed_kmh of 0.0 the call raises
\* ZeroDivisionError.
CE_C23_MigrateReturns ==
    [][(IsCall /\ ret'.op = "migrate" /\ animal.migration_pattern # "none") =>
          /\ ret'.exc = "none"
          /\ ret'.status \in {"success", "insufficient_energy"}
          /\ ret'.status = "insufficient_energy" =>
                 /\ animal'.energy_level = animal.energy_level
                 /\ animal'.happiness_level = animal.happiness_level]_vars

\* command in self.learned_commands
Knows(self, command) ==
    \E i \in 1..Len(self.learned_commands) : self.learned_commands[i] = command

\* C24: learned_commands never holds a command twice; learn_command for a
\* known command returns 'already_known', takes no draw and leaves
\* learned_commands, happiness_level and training_sessions as they were; a
\* command is added only by a call that returns 'success' after a draw.
Thm_C24_CommandsLearnedOnce ==
    /\ [](\A i, j \in 1..Len(animal.learned_commands) :
              i # j => animal.learned_commands[i] # animal.learned_commands[j])
    /\ [][\A command \in Commands, u \in Draws :
              (IsCanine /\ Call(learn_command(animal, command, "owner", 10, u, now))) =>
                  /\ Knows(animal, command) =>
                         /\ ret'.status = "already_known"
                         /\ rng' = rng
                         /\ animal'.learned_commands = animal.learned_commands
                         /\ animal'.happiness_level = animal.happiness_level
                         /\ animal'.training_sessions = animal.training_sessions
                  /\ animal'.learned_commands # animal.learned_commands =>
                         /\ ret'.status = "success"
                         /\ rng' = rng + 1
                         /\ animal'.learned_commands =
                                Append(animal.learned_commands, command)]_vars

\* C24's case: a canine that knows a command was asked to learn it again.
Wit_C24_AlreadyKnown ==
    /\ ret.op = "learn_command"
    /\ ret.status = "already_known"
    /\ Len(animal.learned_commands) = 1
    /\ Len(animal.training_sessions) = 1

\* The step of rank a won challenge gives.
Promoted(role) ==
    CASE role = "member" -> "deputy"
      [] role = "deputy" -> "leader"
      [] OTHER -> role

\* C25: a won challenge promotes by exactly one step (member to deputy,
\* deputy to leader, leader stays leader), a lost one leaves pack_role as it
\* was, and a challenge by a pup or against an id that is not in
\* pack_members changes neither pack_role nor dominance_level.
Thm_C25_ChallengeNeverDemotes ==
    [][\A target \in ChallengeTargets, u \in PackDraws :
          PackCall(challenge_hierarchy(animal, target, u, now)) =>
              /\ ret'.status = "success" =>
                     animal'.pack_role = Promoted(animal.pack_role)
              /\ ret'.status = "failed" => animal'.pack_role = animal.pack_role
              /\ ret'.status \in {"success", "failed", "error"}
              /\ (\/ animal.pack_role = "pup"
                  \/ \A i \in 1..Len(animal.pack_members) :
                         animal.pack_members[i] # target) =>
                     /\ ret'.status = "error"
                     /\ animal'.pack_role = animal.pack_role
                     /\ animal'.dominance_level = animal.dominance_level]_vars

\* C25's case: a leader won a challenge and is still the leader, once it had
\* lost one without losing its rank.
Wit_C25_LeaderStays ==
    /\ ret.op = "challenge_hierarchy"
    /\ ret.status = "success"
    /\ animal.pack_role = "leader"
    /\ LastRecord(animal.pack_hierarchy_changes).description = <<"leader", "leader">>
    /\ \E i \in 1..Len(animal.pack_hierarchy_changes) :
           animal.pack_hierarchy_changes[i].description = <<"CAN2", "failed">>

\* C26: in every state reached by join_pack and leave_pack calls, the keys of
\* loyalty_bonds are exactly the ids in pack_members.
\* Violated: join_pack adds the new members' bonds to the old ones, so after
\* joining a second pack the bonds of the first are still there.
CE_C26_BondsMatchMembers ==
    DOMAIN animal.loyalty_bonds =
        {animal.pack_members[i] : i \in 1..Len(animal.pack_members)}

\* ---------------------------------------------------------------------------
\* A canine that buries and digs up items: calls of bury_item and
\* retrieve_buried_item only, with two kinds of item so that the item filter
\* and the location filter can disagree.
\* ---------------------------------------------------------------------------

BuriedThings == {"bone", "stick"}

ItemFilters == {None} \cup {Some(i) : i \in BuriedThings}

InitBury ==
    /\ animal = NewCanine(Dog, 0, 3, TRUE, 0)
    /\ now = 0
    /\ ret = Returned("__init__", "None", "none")
    /\ rng = 0
    /\ replay = NoReplay
    /\ total_animals = 1
    /\ registry = Registered(EmptyRegistry, animal.tier, animal.species)
    /\ others = <<>>

BuryCall(res) == CallWithin(res, MaxBuryCalls)

\* The entries random.choice can take: none when the method returns before
\* the choice.
RetrievePicks(self, item, location) ==
    IF Len(self.buried_items) = 0 \/ TargetItems(self, item, location) = {}
    THEN {0}
    ELSE TargetItems(self, item, location)

Bury ==
    \E item \in BuriedThings, location \in Locations :
        BuryCall(bury_item(animal, item, location, now))

Retrieve ==
    \E item \in ItemFilters, location \in Locations :
        \E pick \in RetrievePicks(animal, item, location) :
            BuryCall(retrieve_buried_item(animal, item, location, pick, now))

NextBury == Bury \/ Retrieve

SpecBury == InitBury /\ [][NextBury]_vars

\* The entries of buried_items not dug up yet.
Unretrieved(self) ==
    {i \in 1..Len(self.buried_items) : self.buried_items[i].retrieval_date = None}

\* Entry i passes the filter of a retrieve_buried_item(item, location) call.
MatchesFilter(self, i, item, location) ==
    \/ item # None /\ self.buried_items[i].item = item[1]
    \/ location # None /\ self.buried_items[i].location = location
    \/ item = None /\ location = None

\* C27: every retrieve_buried_item call either succeeds, and then the entry
\* it took was not yet retrieved and passes the item or the location filter,
\* exactly that entry gets a retrieval_date, the number of unretrieved entries
\* drops by exactly 1 and buried_items keeps its length and every entry's item,
\* location and burial_date; or no unretrieved entry passes the filter, it
\* returns 'not_found' and the entity is unchanged. A retrieval_date once set
\* is never written again, so each item is retrieved at most once.
Thm_C27_RetrievedOnce ==
    [][\A item \in ItemFilters, location \in Locations :
         \A pick \in RetrievePicks(animal, item, location) :
           BuryCall(retrieve_buried_item(animal, item, location, pick, now)) =>
             LET before == animal.buried_items
                 after == animal'.buried_items
                 matching == {i \in Unretrieved(animal) :
                                MatchesFilter(animal, i, item, location)}
             IN  /\ Len(after) = Len(before)
                 /\ \A i \in 1..Len(before) :
                        /\ after[i].item = before[i].item
                        /\ after[i].location = before[i].location
                        /\ after[i].burial_date = before[i].burial_date
                        /\ before[i].retrieval_date # None =>
                               after[i].retrieval_date = before[i].retrieval_date
                 /\ IF matching = {}
                    THEN ret'.status = "not_found" /\ animal' = animal
                    ELSE /\ ret'.status = "success"
                         /\ pick \in matching
                         /\ after[pick].retrieval_date = Some(now)
                         /\ Unretrieved(animal') = Unretrieved(animal) \ {pick}
                         /\ Cardinality(Unretrieved(animal')) =
                                Cardinality(Unretrieved(animal)) - 1]_vars

\* Two items are buried, one was dug up by an earlier call, and a call whose
\* filter only the dug-up item passes has just returned 'not_found'.
Wit_C27_SecondRetrieveNotFound ==
    /\ ret.op = "retrieve_buried_item"
    /\ ret.status = "not_found"
    /\ Len(animal.buried_items) = 2
    /\ \E i \in 1..2, j \in Unretrieved(animal) :
          /\ animal.buried_items[i].retrieval_date # None
          /\ animal.buried_items[i].item # animal.buried_items[j].item
          /\ animal.buried_items[i].location # animal.buried_items[j].location

\* ---------------------------------------------------------------------------
\* Constructions only: Mammal(...) and Canine(...) calls of several species,
\* with a usual weight and a negative one (no constructor checks its range).
\* others holds the animals the calls returned after the first.
\* ---------------------------------------------------------------------------

\* Weights in grams.
RegistryWeights == {20000, 0 - 1000}

\* Canine.__init__ computes the tail length by math.sqrt(self.weight) after
\* Animal.__init__ and Mammal.__init__ have run: a negative weight raises
\* ValueError there.
ConstructionRaises(tier, weight) == tier = "Canine" /\ weight < 0

InitRegistry ==
    /\ \E tier \in Tiers, species \in SpeciesNames :
          /\ animal = NewAnimal(tier, species, 0, 3, 20000, "female",
                                DefaultProfile, 50, 0)
          /\ registry = Registered(EmptyRegistry, tier, species)
    /\ total_animals = 1
    /\ others = <<>>
    /\ now = 0
    /\ ret = Returned("__init__", "None", "none")
    /\ rng = 0
    /\ replay = NoReplay

ConstructAnimal ==
    /\ now < MaxConstructions
    /\ \E tier \in Tiers, species \in SpeciesNames, weight \in RegistryWeights :
          IF ConstructionRaises(tier, weight)
          THEN /\ registry' = CountMammal(CountSpecies(registry, species))
               /\ ret' = Raised("__init__", "ValueError", "math_domain_error")
               /\ others' = others
          ELSE /\ registry' = Registered(registry, tier, species)
               /\ ret' = Returned("__init__", "None", "none")
               /\ others' = Append(others,
                                   NewAnimal(tier, species, total_animals, 3, weight,
                                             "female", DefaultProfile, 50, now))
    /\ total_animals' = total_animals + 1
    /\ now' = now + 1
    /\ UNCHANGED <<animal, rng, replay>>

NextRegistry == ConstructAnimal

SpecRegistry == InitRegistry /\ [][NextRegistry]_vars

RECURSIVE SumCounts(_, _)
SumCounts(counts, keys) ==
    IF keys = {} THEN 0
    ELSE LET k == CHOOSE x \in keys : TRUE
         IN  counts[k] + SumCounts(counts, keys \ {k})

\* C28: after any sequence of constructions total_animals equals the sum of
\* the species_registry counts and the number of animals created, and
\* canine_count <= mammal_count <= total_animals.
CE_C28_CountersConsistent ==
    /\ total_animals = SumCounts(registry.species_registry, SpeciesNames)
    /\ total_animals = 1 + Len(others)
    /\ registry.canine_count <= registry.mammal_count
    /\ registry.mammal_count <= total_animals

\* C29: the constructor leaves is_alive True and no operation of Animal,
\* Mammal or Canine changes it: only the caller's own write of the attribute
\* does, so an entity reached through the operations alone is alive.
Thm_C29_OperationsKeepAlive ==
    /\ animal.is_alive
    /\ [][ret'.op # "set_is_alive" => animal'.is_alive = animal.is_alive]_vars

\* A living animal that age_up has just found to be of old age.
Wit_C29_OldAndAlive ==
    /\ ret.op = "age_up"
    /\ animal.health_status = "old"
    /\ animal.is_alive


====
